---- MODULE Spec2Model ----
(***************************************************************************)
(* Model of the Stake trading demo:                                        *)
(*   - MockDataService.getMockStocks / getMockPortfolio (the seed),        *)
(*   - PortfolioService.addStock (validation, weighted-average update,     *)
(*     totals) and getCurrentPortfolio,                                    *)
(*   - OrderModalComponent.completePurchase, the caller of addStock, and   *)
(*     the component's drag path with its timers,                          *)
(*   - ModalService, LocalStorageService and the BehaviorSubject streams,  *)
(*   - TabsPage (navigation), DiscoverPage (search, completed orders),     *)
(*   - LoadingService with callers interleaved at its awaits,              *)
(*   - SwipeButtonComponent with its timers.                               *)
(*                                                                         *)
(* JavaScript numbers are modelled as what they are, IEEE-754 doubles:     *)
(* a sign, a 53-bit significand and a binary exponent, with the zeros,     *)
(* the subnormals, the infinities and NaN.  TLC integers are 32 bit, so a  *)
(* significand is a little-endian sequence of base-2^13 limbs.  Every      *)
(* operation of the source (+, -, *, /) is the exact result rounded to     *)
(* nearest with ties to even, and every comparison is the comparison of    *)
(* the doubles.                                                            *)
(*                                                                         *)
(* The({ e : x \in {v} }) is "LET x == v IN e" with v evaluated once: a         *)
(* bound variable holds a value, where a LET or a parameter holds an       *)
(* expression that is evaluated again at each of its uses.                 *)
(***************************************************************************)
EXTENDS Integers, Sequences, FiniteSets, TLC

(* ---------------- bounds ---------------- *)

\* Number of calls (addStock or completePurchase) made in one behaviour.
MaxCalls == 2

\* Observers subscribed to the streams.
MaxSubscribers == 2

\* Concurrent callers of LoadingService.
MaxTasks == 2

\* Gestures made on the swipe button.
MaxGestures == 2

\* Drags made on the ball of the order modal, purchases started before
\* them included.
MaxDrags == 1

\* Pending timers of onSearchBlur on the Discover page.
MaxBlurTimers == 1

\* The swiped events followed within one gesture of the swipe button.
MaxEmits == 2

\* Drags made and purchases started after which onSwipeBuy() of the
\* order modal is no longer followed.
MaxSwipeBuys == 1

(* ---------------- numbers ---------------- *)

\* The element of a one-element set.
The(S) == CHOOSE v \in S : TRUE

\* Limb base of the naturals that hold significands: 2^13, so that a sum
\* of limb products fits 32 bits.
Base == 2^13

\* a without its leading zero limbs.
NStrip(a0) ==
  The({ IF \A i \in 1..Len(a) : a[i] = 0 THEN <<>>
        ELSE SubSeq(a, 1, CHOOSE i \in 1..Len(a) :
                            a[i] # 0 /\ \A j \in (i + 1)..Len(a) : a[j] = 0)
        : a \in {a0} })

\* The limbs of the number whose columns are s[i] (any integers, the whole
\* being a natural), from column i on with carry c.
RECURSIVE NCarry(_, _, _)
NCarry(s, i, c) ==
  IF i > Len(s)
  THEN (IF c = 0 THEN <<>> ELSE <<c % Base>> \o NCarry(s, i, c \div Base))
  ELSE The({ <<t % Base>> \o NCarry(s, i + 1, t \div Base) : t \in { s[i] + c } })

NatOf(n) == NStrip(NCarry(<<n>>, 1, 0))

NAdd(a0, b0) ==
  The({ NCarry([i \in 1..(IF Len(a) > Len(b) THEN Len(a) ELSE Len(b)) |->
                  (IF i <= Len(a) THEN a[i] ELSE 0) + (IF i <= Len(b) THEN b[i] ELSE 0)], 1, 0)
        : a \in {a0}, b \in {b0} })

\* a - b for a >= b.
NSub(a0, b0) ==
  The({ NStrip(NCarry([i \in 1..Len(a) |-> a[i] - (IF i <= Len(b) THEN b[i] ELSE 0)], 1, 0))
        : a \in {a0}, b \in {b0} })

\* Comparison of naturals: -1, 0 or 1.
NCmp(a0, b0) ==
  The({ IF Len(a) < Len(b) THEN -1
        ELSE IF Len(a) > Len(b) THEN 1
        ELSE IF a = b THEN 0
        ELSE The({ IF a[i] < b[i] THEN -1 ELSE 1
                   : i \in { CHOOSE i \in 1..Len(a) :
                               a[i] # b[i] /\ \A j \in (i + 1)..Len(a) : a[j] = b[j] } })
        : a \in {a0}, b \in {b0} })

\* a * m for 0 <= m <= Base.
NMulLimb(a0, m) == The({ NStrip(NCarry([i \in 1..Len(a) |-> a[i] * m], 1, 0)) : a \in {a0} })

\* Column k of the product a * b: the sum of a[i] * b[k + 1 - i].
RECURSIVE NColumn(_, _, _, _)
NColumn(a, b, k, i) ==
  IF i > Len(a) \/ i > k THEN 0
  ELSE (IF k + 1 - i <= Len(b) THEN a[i] * b[k + 1 - i] ELSE 0) + NColumn(a, b, k, i + 1)

\* a * b for a and b of at most 16 limbs.
NMul(a0, b0) ==
  The({ IF a = <<>> \/ b = <<>> THEN <<>>
        ELSE NStrip(NCarry([k \in 1..(Len(a) + Len(b) - 1) |-> NColumn(a, b, k, 1)], 1, 0))
        : a \in {a0}, b \in {b0} })

\* a * 2^s
NShl(a0, s) ==
  The({ IF a = <<>> THEN a
        ELSE [i \in 1..(s \div 13) |-> 0] \o NCarry([i \in 1..Len(a) |-> a[i] * 2^(s % 13)], 1, 0)
        : a \in {a0} })

\* a \div 2^s
NShr(a0, s) ==
  The({ IF Len(a) <= w THEN <<>>
        ELSE NStrip([i \in 1..(Len(a) - w) |->
                       (a[i + w] \div 2^b)
                       + (IF i + w < Len(a) THEN (a[i + w + 1] % 2^b) * 2^(13 - b) ELSE 0)])
        : a \in {a0}, w \in { s \div 13 }, b \in { s % 13 } })

\* The number of bits of a: 0 for 0, else 1 + floor(log2 a).
NBits(a0) ==
  The({ IF a = <<>> THEN 0
        ELSE 13 * (Len(a) - 1)
             + (CHOOSE n \in 1..13 : 2^(n - 1) <= a[Len(a)] /\ a[Len(a)] < 2^n)
        : a \in {a0} })

\* a % 2^s compared with 2^(s - 1), for s >= 1: -1, 0 or 1.
NHalf(a0, s) ==
  The({ IF w + 1 > Len(a) \/ (a[w + 1] \div 2^b) % 2 = 0 THEN -1
        ELSE IF a[w + 1] % 2^b # 0 \/ \E i \in 1..w : a[i] # 0 THEN 1
        ELSE 0
        : a \in {a0}, w \in { (s - 1) \div 13 }, b \in { (s - 1) % 13 } })

(* ---------------- IEEE-754 doubles ---------------- *)

\* A double is [k, neg, m, e]: k = "num" for the finite value
\* (-1)^neg * m * 2^e, where 2^52 <= m < 2^53 and -1074 <= e <= 971 (a
\* normal number), or m < 2^52 and e = -1074 (a subnormal), or m = 0 and
\* e = 0 (a zero, signed); k = "inf" for an infinity, k = "nan" for NaN.
\* The exponents of a double run from -1022 to 1023, over 52 fraction bits.
MinExp == -1022 - 52
MaxExp == 1023 - 52

Double(k, neg, m, e) == [k |-> k, neg |-> neg, m |-> m, e |-> e]
NaN == Double("nan", FALSE, <<>>, 0)
Inf(neg) == Double("inf", neg, <<>>, 0)
SignedZero(neg) == Double("num", neg, <<>>, 0)
isZero(a) == a.k = "num" /\ a.m = <<>>

\* The double nearest to (-1)^neg * (m + f) * 2^e, where f = 0, or
\* 0 < f < 1 when sticky: round to nearest, ties to even, with gradual
\* underflow and overflow to infinity.
roundDouble(neg, m0, e, sticky) ==
  The({ IF m = <<>> THEN SignedZero(neg)
        ELSE The({ The({ IF r = <<>> THEN SignedZero(neg)
                         ELSE IF NBits(r) > 53
                              THEN (IF e + s + 1 > MaxExp THEN Inf(neg)
                                    ELSE Double("num", neg, NShr(r, 1), e + s + 1))
                         ELSE IF e + s > MaxExp THEN Inf(neg)
                         ELSE Double("num", neg, r, e + s)
                         : r \in { IF s <= 0 THEN NShl(m, 0 - s)
                                   ELSE The({ The({ IF c > 0 \/ (c = 0 /\ (sticky \/ (q # <<>> /\ q[1] % 2 = 1)))
                                                    THEN NAdd(q, <<1>>) ELSE q
                                                    : c \in { NHalf(m, s) } })
                                              : q \in { NShr(m, s) } }) } })
                   : s \in { IF e + NBits(m) - 53 < MinExp THEN MinExp - e ELSE NBits(m) - 53 } })
        : m \in {m0} })

\* Number(n) for an integer n.
Number(n) == roundDouble(n < 0, NatOf(IF n < 0 THEN 0 - n ELSE n), 0, FALSE)

RNeg(a0) == The({ IF a.k = "nan" THEN a ELSE [a EXCEPT !.neg = ~a.neg] : a \in {a0} })

\* a * b
RMul(a0, b0) ==
  The({ IF a.k = "nan" \/ b.k = "nan" THEN NaN
        ELSE IF a.k = "inf" \/ b.k = "inf"
             THEN (IF isZero(a) \/ isZero(b) THEN NaN ELSE Inf(a.neg # b.neg))
        ELSE roundDouble(a.neg # b.neg, NMul(a.m, b.m), a.e + b.e, FALSE)
        : a \in {a0}, b \in {b0} })

\* a + b for finite a and b that are not zero: the exact sum of the
\* significands aligned on the lower exponent, rounded.  An operand more
\* than 64 binary places below the other cannot change the result.
addFinite(a, b) ==
  IF a.e - b.e > 64 THEN a
  ELSE IF b.e - a.e > 64 THEN b
  ELSE The({ The({ IF a.neg = b.neg THEN roundDouble(a.neg, NAdd(x, y), lo, FALSE)
                   ELSE The({ IF c = 0 THEN SignedZero(FALSE)
                              ELSE IF c > 0 THEN roundDouble(a.neg, NSub(x, y), lo, FALSE)
                              ELSE roundDouble(b.neg, NSub(y, x), lo, FALSE)
                              : c \in { NCmp(x, y) } })
                   : x \in { NShl(a.m, a.e - lo) }, y \in { NShl(b.m, b.e - lo) } })
             : lo \in { IF a.e < b.e THEN a.e ELSE b.e } })

\* a + b
RAdd(a0, b0) ==
  The({ IF a.k = "nan" \/ b.k = "nan" THEN NaN
        ELSE IF a.k = "inf" THEN (IF b.k = "inf" /\ a.neg # b.neg THEN NaN ELSE a)
        ELSE IF b.k = "inf" THEN b
        ELSE IF isZero(a) THEN (IF isZero(b) THEN SignedZero(a.neg /\ b.neg) ELSE b)
        ELSE IF isZero(b) THEN a
        ELSE addFinite(a, b)
        : a \in {a0}, b \in {b0} })

\* a - b
RSub(a, b) == RAdd(a, RNeg(b))

\* One limb of a quotient (Knuth's algorithm D): the largest q with
\* q * d <= rem, for rem < d * Base and d = (a divisor of five limbs whose
\* top limb is at least Base / 2) * Base^j.  The estimate from the leading
\* limbs exceeds q by at most 2.
divLimb(rem0, d0, j) ==
  The({ The({ The({ IF NCmp(t, rem) <= 0 THEN [q |-> est, rem |-> NSub(rem, t)]
                    ELSE IF NCmp(NSub(t, d), rem) <= 0
                         THEN [q |-> est - 1, rem |-> NSub(rem, NSub(t, d))]
                    ELSE [q |-> est - 2, rem |-> NSub(rem, NSub(NSub(t, d), d))]
                    : t \in { NMulLimb(d, est) } })
              : est \in { IF top \div d[j + 5] >= Base THEN Base - 1 ELSE top \div d[j + 5] } })
        : rem \in {rem0}, d \in {d0},
          top \in { (IF j + 6 <= Len(rem0) THEN rem0[j + 6] * Base ELSE 0)
                    + (IF j + 5 <= Len(rem0) THEN rem0[j + 5] ELSE 0) } })

\* The quotient of rem by d, limb j first and limb 0 last, for rem below
\* d * Base^(j + 1): its limbs and the remainder.
RECURSIVE divLimbs(_, _, _, _)
divLimbs(rem0, d0, q0, j) ==
  The({ IF j < 0 THEN [q |-> NStrip(q), rem |-> rem]
        ELSE The({ divLimbs(c.rem, d, <<c.q>> \o q, j - 1)
                   : c \in { divLimb(rem, [i \in 1..j |-> 0] \o d, j) } })
        : rem \in {rem0}, d \in {d0}, q \in {q0} })

\* a / b: for finite operands, 56 or 57 bits of the quotient of the
\* significands, the divisor scaled to five full limbs, rounded with the
\* remainder as the sticky bit.
RDiv(a0, b0) ==
  The({ IF a.k = "nan" \/ b.k = "nan" THEN NaN
        ELSE IF a.k = "inf" THEN (IF b.k = "inf" THEN NaN ELSE Inf(a.neg # b.neg))
        ELSE IF b.k = "inf" THEN SignedZero(a.neg # b.neg)
        ELSE IF isZero(b) THEN (IF isZero(a) THEN NaN ELSE Inf(a.neg # b.neg))
        ELSE IF isZero(a) THEN SignedZero(a.neg # b.neg)
        ELSE The({ The({ roundDouble(a.neg # b.neg, d.q, a.e - b.e - sh, d.rem # <<>>)
                         : d \in { divLimbs(NShl(a.m, sh + 65 - NBits(b.m)),
                                            NShl(b.m, 65 - NBits(b.m)), <<>>, 4) } })
                   : sh \in { NBits(b.m) + 56 - NBits(a.m) } })
        : a \in {a0}, b \in {b0} })

\* The order of a and b: -1, 0 or 1, and 2 when either is NaN (no
\* comparison of the source holds then).  The zeros are equal.
RCmp(a0, b0) ==
  The({ IF a.k = "nan" \/ b.k = "nan" THEN 2
        ELSE The({ IF sa # sb THEN (IF sa < sb THEN -1 ELSE 1)
                   ELSE IF sa = 0 THEN 0
                   ELSE sa * (IF a.k = "inf" THEN (IF b.k = "inf" THEN 0 ELSE 1)
                              ELSE IF b.k = "inf" THEN -1
                              ELSE IF a.e # b.e THEN (IF a.e < b.e THEN -1 ELSE 1)
                              ELSE NCmp(a.m, b.m))
                   : sa \in { IF isZero(a) THEN 0 ELSE IF a.neg THEN -1 ELSE 1 },
                     sb \in { IF isZero(b) THEN 0 ELSE IF b.neg THEN -1 ELSE 1 } })
        : a \in {a0}, b \in {b0} })

\* a === b, a < b, a <= b
REq(a, b) == RCmp(a, b) = 0
RLt(a, b) == RCmp(a, b) = -1
RLe(a, b) == RCmp(a, b) \in { -1, 0 }

\* The number the quotient of the integers n and d denotes, and the decimal
\* literal n * 10^-k (k <= 9), e.g. Dec(30282, 4) is 3.0282: the double
\* nearest to it, as the division of two integers yields.
Rat(n, d) == RDiv(Number(n), Number(d))
Dec(n, k) == Rat(n, 10^k)
Zero == Number(0)
Hundred == Number(100)

(* ---------------- MockDataService ---------------- *)

Stock(sym, price, change, changePercent) ==
  [symbol |-> sym, price |-> price, change |-> change, changePercent |-> changePercent]

getMockStocks ==
  << Stock("AAPL", Dec(10544, 2), Dec(2412, 2), Dec(229, 3)),
     Stock("TSLA", Dec(10544, 2), Dec(2412, 2), Dec(229, 3)),
     Stock("TIK",  Dec(10544, 2), Dec(2412, 2), Dec(229, 3)),
     Stock("FIG",  Dec(13104, 2), Dec(-285, 2), Dec(-213, 4)),
     Stock("ABNB", Dec(10980, 2), Dec(125, 2),  Dec(115, 4)),
     Stock("BABA", Dec(8745, 2),  Dec(-115, 2), Dec(-130, 4)) >>

\* One seed holding: 3.0282 shares at an average price of 81.32.
SeedHolding(stock) ==
  The({ [stock |-> stock,
         quantity |-> quantity,
         averagePrice |-> averagePrice,
         totalValue |-> RMul(stock.price, quantity),
         gainLoss |-> RMul(RSub(stock.price, averagePrice), quantity),
         gainLossPercent |-> Dec(229, 3)]
        : quantity \in { Dec(30282, 4) }, averagePrice \in { Dec(8132, 2) } })

RECURSIVE SumGainLoss(_)
SumGainLoss(hs0) ==
  The({ IF hs = <<>> THEN Zero
        ELSE RAdd(SumGainLoss(SubSeq(hs, 1, Len(hs) - 1)), hs[Len(hs)].gainLoss)
        : hs \in {hs0} })

\* The seed holdings: the first three mock stocks.
SeedHoldings ==
  The({ << SeedHolding(stocks[1]), SeedHolding(stocks[2]), SeedHolding(stocks[3]) >>
        : stocks \in { getMockStocks } })

getMockPortfolio ==
  The({ The({ [totalEquity |-> totalEquity,
               dayChange |-> totalGainLoss,
               dayChangePercent |-> RDiv(totalGainLoss, RSub(totalEquity, totalGainLoss)),
               holdings |-> holdings]
              : totalEquity \in { Number(8036) }, totalGainLoss \in { SumGainLoss(holdings) } })
        : holdings \in { SeedHoldings } })

(* ---------------- PortfolioService.addStock ---------------- *)

\* holdings.find(h => h.stock.symbol === stock.symbol): index of the first
\* match, 0 when there is none.
RECURSIVE FindFrom(_, _, _)
FindFrom(hs, sym, i) ==
  IF i > Len(hs) THEN 0
  ELSE IF hs[i].stock.symbol = sym THEN i ELSE FindFrom(hs, sym, i + 1)

\* A lookup by object identity instead of by symbol.
findHolding_ByRecord(hs, stock) ==
  IF \E i \in DOMAIN hs : hs[i].stock = stock
  THEN CHOOSE i \in DOMAIN hs : hs[i].stock = stock /\ \A j \in 1..(i - 1) : hs[j].stock # stock
  ELSE 0

findHolding(hs, stock) == FindFrom(hs, stock.symbol, 1)

\* The two validation throws of addStock; "none" when the call is accepted.
validateBuy(stock, quantity) ==
  IF stock.symbol = "" THEN "Invalid stock data"
  ELSE The({ IF RLt(purchaseValue, Dec(1, 2)) \/ RLt(Number(1000000), purchaseValue)
             THEN "Purchase amount must be between $0.01 and $1,000,000"
             ELSE "none"
             : purchaseValue \in { RMul(stock.price, quantity) } })

\* The new cost divided by the shares held before the buy.
newAveragePrice_OldShares(h, stock, quantity) ==
  RDiv(RAdd(RMul(h.quantity, h.averagePrice), RMul(stock.price, quantity)), h.quantity)

\* The plain mean of the old average and the new price.
newAveragePrice_Unweighted(h, stock, quantity) ==
  RDiv(RAdd(h.averagePrice, stock.price), Number(2))

newAveragePrice(h, stock, quantity) ==
  LET purchaseValue == RMul(stock.price, quantity)
      oldValue == RMul(h.quantity, h.averagePrice)
      newValue == RAdd(oldValue, purchaseValue)
      newTotalShares == RAdd(h.quantity, quantity)
  IN RDiv(newValue, newTotalShares)

\* The update valuing the position at the stored quote, not the new one.
updateHolding_StoredPrice(h, stock, quantity) ==
  The({ [stock |-> h.stock,
         quantity |-> newTotalShares,
         averagePrice |-> avg,
         totalValue |-> RMul(h.stock.price, newTotalShares),
         gainLoss |-> RMul(RSub(stock.price, avg), newTotalShares),
         gainLossPercent |-> RMul(RDiv(RSub(stock.price, avg), avg), Hundred)]
        : newTotalShares \in { RAdd(h.quantity, quantity) },
          avg \in { newAveragePrice(h, stock, quantity) } })

\* The branch that updates an existing holding (the stored stock is kept).
updateHolding(h, stock, quantity) ==
  The({ [stock |-> h.stock,
         quantity |-> newTotalShares,
         averagePrice |-> avg,
         totalValue |-> RMul(stock.price, newTotalShares),
         gainLoss |-> RMul(RSub(stock.price, avg), newTotalShares),
         gainLossPercent |-> RMul(RDiv(RSub(stock.price, avg), avg), Hundred)]
        : newTotalShares \in { RAdd(h.quantity, quantity) },
          avg \in { newAveragePrice(h, stock, quantity) } })

\* The branch that creates a holding for a symbol not yet held.
newHolding(stock, quantity) ==
  The({ [stock |-> stock,
         quantity |-> quantity,
         averagePrice |-> stock.price,
         totalValue |-> purchaseValue,
         gainLoss |-> RMul(purchaseValue, Dec(1, 4)),
         gainLossPercent |-> Dec(1, 2)]
        : purchaseValue \in { RMul(stock.price, quantity) } })

buyHoldings(hs, stock, quantity) ==
  The({ IF i # 0 THEN [hs EXCEPT ![i] = updateHolding(hs[i], stock, quantity)]
        ELSE Append(hs, newHolding(stock, quantity))
        : i \in { findHolding(hs, stock) } })

\* The day change summed from holding.gainLoss, as the seed computes it.
sumDayChange_FromGainLoss(hs) == SumGainLoss(hs)

\* holdings.reduce((sum, h) => sum + h.stock.change * h.quantity, 0)
RECURSIVE sumDayChange(_)
sumDayChange(hs0) ==
  The({ IF hs = <<>> THEN Zero
        ELSE RAdd(sumDayChange(SubSeq(hs, 1, Len(hs) - 1)),
                  RMul(hs[Len(hs)].stock.change, hs[Len(hs)].quantity))
        : hs \in {hs0} })

dayChangePercentOf(totalEquity, dayChange) ==
  The({ IF ~REq(portfolioWithoutChange, Zero)
        THEN RMul(RDiv(dayChange, portfolioWithoutChange), Hundred)
        ELSE Zero
        : portfolioWithoutChange \in { RSub(totalEquity, dayChange) } })

\* applyBuy that adds the price of one share to totalEquity, whatever the
\* quantity bought.
applyBuy_OneShare(pf, stock, quantity) ==
  The({ The({ [totalEquity |-> totalEquity,
               dayChange |-> dayChange,
               dayChangePercent |-> dayChangePercentOf(totalEquity, dayChange),
               holdings |-> holdings]
              : dayChange \in { sumDayChange(holdings) } })
        : holdings \in { buyHoldings(pf.holdings, stock, quantity) },
          totalEquity \in { RAdd(pf.totalEquity, stock.price) } })

\* The body of addStock after validation has passed.
applyBuy(pf, stock, quantity) ==
  The({ The({ [totalEquity |-> totalEquity,
               dayChange |-> dayChange,
               dayChangePercent |-> dayChangePercentOf(totalEquity, dayChange),
               holdings |-> holdings]
              : dayChange \in { sumDayChange(holdings) } })
        : holdings \in { buyHoldings(pf.holdings, stock, quantity) },
          totalEquity \in { RAdd(pf.totalEquity, RMul(stock.price, quantity)) } })

\* addStock with the purchase-value check moved behind the mutation.
addStock_ValidateLate(pf, stock, quantity) ==
  The({ The({ [portfolio |-> after,
               accepted |-> error = "none",
               emitted |-> IF error = "none" THEN <<after>> ELSE <<>>,
               error |-> error,
               coreHandled |-> error # "none",
               thrown |-> FALSE]
              : after \in { IF stock.symbol # "" THEN applyBuy(pf, stock, quantity) ELSE pf } })
        : error \in { validateBuy(stock, quantity) } })

\* addStock that hands the portfolio to portfolioSubject.next in a finally
\* block, on the failure path too.
addStock_EmitAlways(pf, stock, quantity) ==
  The({ The({ [portfolio |-> after,
               accepted |-> error = "none",
               emitted |-> <<after>>,
               error |-> error,
               coreHandled |-> error # "none",
               thrown |-> FALSE]
              : after \in { IF error = "none" THEN applyBuy(pf, stock, quantity) ELSE pf } })
        : error \in { validateBuy(stock, quantity) } })

\* addStock as its caller sees it.  Every throw happens inside the method's
\* own try block, whose catch hands the error to ErrorHandlerService
\* (console.error and an error toast); nothing propagates to the caller.
\* emitted lists the values handed to portfolioSubject.next.
addStock(pf, stock, quantity) ==
  The({ The({ [portfolio |-> after,
               accepted |-> error = "none",
               emitted |-> IF error = "none" THEN <<after>> ELSE <<>>,
               error |-> error,
               coreHandled |-> error # "none",
               thrown |-> FALSE]
              : after \in { IF error = "none" THEN applyBuy(pf, stock, quantity) ELSE pf } })
        : error \in { validateBuy(stock, quantity) } })

(* ---------------- OrderModalComponent ---------------- *)

\* get calculatedShares(): amount / price for a positive price, else 0.
calculatedShares(stock, amount) ==
  IF RLt(Zero, stock.price) THEN RDiv(amount, stock.price) ELSE Zero

(* ---------------- inputs ---------------- *)

AAPL == getMockStocks[1]
FIG == getMockStocks[4]

ACME100 == Stock("ACME", Dec(100, 0), Dec(2, 0), Dec(2, 2))
ACME120 == Stock("ACME", Dec(120, 0), Dec(20, 0), Dec(2, 1))
\* A later quote of the held symbol AAPL.
AAPL120 == Stock("AAPL", Dec(120, 0), Dec(150, 2), Dec(125, 4))
NoSymbol == Stock("", Dec(100, 0), Zero, Zero)
NegPrice == Stock("NEG", Dec(-10, 0), Zero, Zero)
ZeroPrice == Stock("ZERO", Zero, Zero, Zero)
\* A stock with the price Infinity, the change NaN and the changePercent -0.
NonFinite == Stock("ODD", Inf(FALSE), NaN, SignedZero(TRUE))
\* A price of 5e-310, below the smallest normal double.
Subnormal == Stock("SUB", Double("num", FALSE, <<7895, 2467, 686, 184>>, -1074), Zero, Zero)
\* A stock whose change exceeds its price: bought 78.16879448 times on the
\* seed it leaves totalEquity - dayChange one rounding error from 0.
NearZero == Stock("NEAR", Number(1), Number(101), Dec(1, 1))
\* A stock at price 1 whose change is 7817.879448: one share bought on the
\* seed leaves totalEquity - dayChange at exactly 0.
Cancels == Stock("CXL", Number(1), Double("num", FALSE, <<3720, 7176, 6216, 7443, 1>>, -40), Zero)

Call(stock, quantity) == [stock |-> stock, quantity |-> quantity]

\* Arguments of the direct addStock calls: buys of held and of new symbols,
\* purchase values on and beyond both limits, malformed stock records, the
\* shares of a $1,000,000 order at 120, a quantity of 2e307 at a subnormal
\* price, 78.16879448 shares of NearZero, and one share of Cancels.
BuyCalls ==
  { Call(AAPL, Dec(1, 0)),
    Call(AAPL120, Dec(2, 0)),
    Call(FIG, Dec(1, 0)),
    Call(ACME100, Dec(2, 0)),
    Call(ACME120, Dec(1, 0)),
    Call(ACME100, Dec(1, 4)),
    Call(ACME100, Dec(10000, 0)),
    Call(NegPrice, Dec(-1, 0)),
    Call(NoSymbol, Dec(1, 0)),
    Call(ACME100, Zero),
    Call(ACME100, Dec(20000, 0)),
    Call(ZeroPrice, Dec(1, 0)),
    Call(NegPrice, Dec(1, 0)),
    Call(AAPL, Dec(-1, 0)),
    Call(AAPL120, RDiv(Number(1000000), Number(120))),
    Call(Subnormal, Double("num", FALSE, <<5171, 1379, 1999, 6390, 1>>, 968)),
    Call(NearZero, Double("num", FALSE, <<5658, 6886, 4961, 1813, 1>>, -46)),
    Call(Cancels, Number(1)) }

Order(stock, amount) == [stock |-> stock, amount |-> amount]

\* Orders completed in the order modal: the selected stock and the dollar
\* amount in the form (0 is reachable through the drag path, which skips
\* the form validation).
Orders ==
  { Order(AAPL, Dec(240, 0)),
    Order(FIG, Dec(240, 0)),
    Order(AAPL, Zero),
    Order(ACME100, Dec(2000000, 0)),
    Order(AAPL120, Dec(1000000, 0)),
    Order(ZeroPrice, Dec(240, 0)) }

(* ---------------- BehaviorSubject streams ---------------- *)

\* A value that may be null: <<>> is null, <<v>> is the value v.
Null == <<>>
Some(v) == <<v>>

\* One call subject.next(value) on the stream named stream.
Publish(stream, value) == [stream |-> stream, value |-> value]

\* next that calls the observers last-registered first.
next_LastFirst(stream, obs, value) ==
  <<[kind |-> "next", stream |-> stream, to |-> 0, value |-> value]>> \o
  [i \in 1..Len(obs) |->
     [kind |-> "deliver", stream |-> stream, to |-> obs[Len(obs) + 1 - i], value |-> value]]

\* The calls one next(value) makes: first the subject takes the value, then
\* every observer is called with it, in registration order.
next(stream, obs, value) ==
  <<[kind |-> "next", stream |-> stream, to |-> 0, value |-> value]>> \o
  [i \in 1..Len(obs) |-> [kind |-> "deliver", stream |-> stream, to |-> obs[i], value |-> value]]

\* The calls a sequence of publishes makes, obs being the observers of each
\* stream.
RECURSIVE nextAll(_, _)
nextAll(publishes, obs) ==
  IF publishes = <<>> THEN <<>>
  ELSE next(publishes[1].stream, obs[publishes[1].stream], publishes[1].value)
       \o nextAll(Tail(publishes), obs)

\* A plain Subject: a new observer is not called until the next publish.
subscribe_NoReplay(stream, id, current) == <<>>

\* subscribe on a BehaviorSubject: the new observer is called at once, one
\* time, with the subject's current value.
subscribe(stream, id, current) ==
  <<[kind |-> "deliver", stream |-> stream, to |-> id, value |-> current]>>

(* ---------------- PortfolioService: the published objects ---------------- *)

\* What addStock does to the Portfolio objects published so far.  The method
\* writes the new totals into the object the subject holds (the last one
\* published) and updates the holdings through its holdings array, which
\* every shallow copy {...currentPortfolio} shares; each emitted value is a
\* new object.  emitted is the object's value when it was published, now is
\* what it reads now.
publishedAfter(objs, r) ==
  [k \in 1..Len(objs) |->
     [emitted |-> objs[k].emitted,
      now |-> IF ~r.accepted THEN objs[k].now
              ELSE IF k = Len(objs) THEN r.portfolio
              ELSE [objs[k].now EXCEPT !.holdings = r.portfolio.holdings]]]
  \o [i \in 1..Len(r.emitted) |-> [emitted |-> r.emitted[i], now |-> r.emitted[i]]]

(* ---------------- ModalService ---------------- *)

\* openOrderModal that leaves an already visible modal as it is.
openOrderModal_KeepOpen(m, stock) ==
  IF m.visible THEN [visible |-> m.visible, selected |-> m.selected, publishes |-> <<>>]
  ELSE [visible |-> TRUE,
        selected |-> Some(stock),
        publishes |-> << Publish("selectedStock", Some(stock)), Publish("visible", TRUE) >>]

\* openOrderModal that shows the modal before it selects the stock.
openOrderModal_VisibleFirst(m, stock) ==
  [visible |-> TRUE,
   selected |-> Some(stock),
   publishes |-> << Publish("visible", TRUE), Publish("selectedStock", Some(stock)) >>]

\* openOrderModal(stock)
openOrderModal(m, stock) ==
  [visible |-> TRUE,
   selected |-> Some(stock),
   publishes |-> << Publish("selectedStock", Some(stock)), Publish("visible", TRUE) >>]

\* closeOrderModal() that also clears the selection.
closeOrderModal_Clearing(m) ==
  [visible |-> FALSE,
   selected |-> Null,
   publishes |-> << Publish("visible", FALSE), Publish("selectedStock", Null) >>]

\* closeOrderModal(); forceCloseOrderModal() calls it.
closeOrderModal(m) ==
  [visible |-> FALSE,
   selected |-> m.selected,
   publishes |-> << Publish("visible", FALSE) >>]

(* ---------------- TabsPage ---------------- *)

\* A handler that finalizes the order on navigation, clearing the selection.
onRouterEvent_Clearing(m, kind) ==
  IF kind = "NavigationEnd" THEN closeOrderModal_Clearing(m)
  ELSE [visible |-> m.visible, selected |-> m.selected, publishes |-> <<>>]

\* router.events.pipe(filter(e => e instanceof NavigationEnd)).subscribe(
\*   () => modalService.forceCloseOrderModal()): events of another kind are
\* filtered out.
onRouterEvent(m, kind) ==
  IF kind = "NavigationEnd" THEN closeOrderModal(m)
  ELSE [visible |-> m.visible, selected |-> m.selected, publishes |-> <<>>]

\* The kinds of router event a navigation raises.
RouterEvents == { "NavigationStart", "NavigationEnd" }

(* ---------------- ModalService, continued ---------------- *)

\* toggleOrderModal(stock?): stock is Null when the argument is left out.
toggleOrderModal(m, stock) ==
  IF m.visible THEN closeOrderModal(m)
  ELSE IF stock # Null THEN openOrderModal(m, stock[1])
  ELSE [visible |-> m.visible, selected |-> m.selected, publishes |-> <<>>]

\* { ...currentStock, change: 0, changePercent: 0 }
zeroedCopy(stock) == [stock EXCEPT !.change = Zero, !.changePercent = Zero]

\* updateStockAfterOrder() that zeroes the selected Stock object itself.
\* stocks maps each Stock object callers supplied to what it reads now.
updateStockAfterOrder_InPlace(m, stocks) ==
  [visible |-> FALSE,
   selected |-> Null,
   publishes |-> << Publish("visible", FALSE) >>
                 \o (IF m.selected # Null
                     THEN << Publish("selectedStock", Some(zeroedCopy(m.selected[1]))) >>
                     ELSE <<>>)
                 \o << Publish("selectedStock", Null) >>,
   stocks |-> [s \in DOMAIN stocks |->
                 IF m.selected = Some(s) THEN zeroedCopy(stocks[s]) ELSE stocks[s]]]

\* updateStockAfterOrder() that publishes the zeroed copy before it closes.
updateStockAfterOrder_CopyFirst(m, stocks) ==
  [visible |-> FALSE,
   selected |-> Null,
   publishes |-> (IF m.selected # Null
                  THEN << Publish("selectedStock", Some(zeroedCopy(m.selected[1]))) >>
                  ELSE <<>>)
                 \o << Publish("visible", FALSE) >>
                 \o << Publish("selectedStock", Null) >>,
   stocks |-> stocks]

\* updateStockAfterOrder() without the final selectedStock.next(null).
updateStockAfterOrder_KeepCopy(m, stocks) ==
  [visible |-> FALSE,
   selected |-> IF m.selected # Null THEN Some(zeroedCopy(m.selected[1])) ELSE Null,
   publishes |-> << Publish("visible", FALSE) >>
                 \o (IF m.selected # Null
                     THEN << Publish("selectedStock", Some(zeroedCopy(m.selected[1]))) >>
                     ELSE <<>>),
   stocks |-> stocks]

\* updateStockAfterOrder(): the zeroed record is a new object, so no Stock
\* object a caller supplied is written.
updateStockAfterOrder(m, stocks) ==
  [visible |-> FALSE,
   selected |-> Null,
   publishes |-> << Publish("visible", FALSE) >>
                 \o (IF m.selected # Null
                     THEN << Publish("selectedStock", Some(zeroedCopy(m.selected[1]))) >>
                     ELSE <<>>)
                 \o << Publish("selectedStock", Null) >>,
   stocks |-> stocks]

(* ---------------- LocalStorageService ---------------- *)

MAX_RECENT_SEARCHES == 5

\* The value null where JSON.parse has read it for a number.
JsNull == Double("null", FALSE, <<>>, 0)

\* JSON.stringify of a number and JSON.parse of what it wrote: NaN and the
\* infinities are written as null, -0 as 0, and a finite number as the
\* shortest decimal that reads back as the same double.
jsonNumber(x) ==
  IF x.k # "num" THEN JsNull
  ELSE IF isZero(x) THEN Zero
  ELSE x

\* JSON.stringify of a Stock[]: the text is modelled as the sequence of the
\* records' field values as written; JSON.parse reads the records back.
JSONstringify(list) ==
  [i \in 1..Len(list) |->
     <<list[i].symbol, jsonNumber(list[i].price), jsonNumber(list[i].change),
       jsonNumber(list[i].changePercent)>>]

JSONparse(text) ==
  [i \in 1..Len(text) |-> Stock(text[i][1], text[i][2], text[i][3], text[i][4])]

\* getRecentSearches(): item is what localStorage holds under the key, Null
\* when absent; getItem tells whether localStorage.getItem returns or
\* throws, and a throw is caught and gives the empty list.
getRecentSearches(item, getItem) ==
  IF getItem /\ item # Null THEN JSONparse(item[1]) ELSE <<>>

\* recentSearches.filter(s => s.symbol !== stock.symbol)
filterOut(list, sym) == SelectSeq(list, LAMBDA s : s.symbol # sym)

\* addRecentSearch(stock): the item stored afterwards.  setItem tells
\* whether localStorage.setItem returns or throws; a throw is caught and
\* the item stays as it was.
addRecentSearch(item, stock, getItem, setItem) ==
  IF ~setItem THEN item
  ELSE The({ Some(JSONstringify(IF Len(added) > MAX_RECENT_SEARCHES
                                THEN SubSeq(added, 1, MAX_RECENT_SEARCHES) ELSE added))
             : added \in { <<stock>> \o filterOut(getRecentSearches(item, getItem),
                                                  stock.symbol) } })

\* clearRecentSearches(): localStorage.removeItem(key), whose throw is
\* caught and leaves the item.
clearRecentSearches(item, removeItem) == IF removeItem THEN Null ELSE item
(* ---------------- MockDataService: trending stocks, texts ---------------- *)

\* getTrendingStocks(): FIG, ABNB and BABA, five times over.
getTrendingStocks ==
  The({ baseStocks \o baseStocks \o baseStocks \o baseStocks \o baseStocks
        : baseStocks \in { << Stock("FIG",  Dec(13104, 2), Dec(-285, 2), Dec(-213, 4)),
                              Stock("ABNB", Dec(10564, 2), Dec(23, 1),   Dec(223, 4)),
                              Stock("BABA", Dec(8745, 2),  Dec(-115, 2), Dec(-130, 4)) >> } })

\* The characters of symbol and companyName of getMockStocks()[i].
StockText ==
  << [symbol |-> <<"A", "A", "P", "L">>, companyName |-> <<"A", "p", "p", "l", "e", " ", "I", "n", "c", ".">>],
     [symbol |-> <<"T", "S", "L", "A">>, companyName |-> <<"T", "e", "s", "l", "a", " ", "I", "n", "c", ".">>],
     [symbol |-> <<"T", "I", "K">>, companyName |-> <<"T", "i", "k", "T", "o", "k", " ", "I", "n", "c", ".">>],
     [symbol |-> <<"F", "I", "G">>, companyName |-> <<"F", "i", "g", "m", "a", " ", "I", "n", "c">>],
     [symbol |-> <<"A", "B", "N", "B">>, companyName |-> <<"A", "i", "r", "b", "n", "b", ",", " ", "I", "n", "c", ".">>],
     [symbol |-> <<"B", "A", "B", "A">>, companyName |-> <<"A", "l", "i", "b", "a", "b", "a", " ", "G", "r", "o", "u", "p">>] >>

\* String.prototype.toLowerCase on a sequence of characters.
toLowerCase(text) ==
  LET upper == <<"A", "B", "C", "D", "E", "F", "G", "H", "I", "J", "K", "L", "M", "N", "O", "P", "Q", "R", "S", "T", "U", "V", "W", "X", "Y", "Z">>
      lower == <<"a", "b", "c", "d", "e", "f", "g", "h", "i", "j", "k", "l", "m", "n", "o", "p", "q", "r", "s", "t", "u", "v", "w", "x", "y", "z">>
  IN [i \in 1..Len(text) |->
        IF \E k \in 1..26 : upper[k] = text[i]
        THEN lower[CHOOSE k \in 1..26 : upper[k] = text[i]]
        ELSE text[i]]

\* String.prototype.includes: q occurs in text as a contiguous run.
includes(text, q) ==
  \E start \in 0..(Len(text) - Len(q)) :
    \A k \in 1..Len(q) : text[start + k] = q[k]

(* ---------------- DiscoverPage ---------------- *)

\* The page as its field initialisers leave it, before ngOnInit.
\* blurTimers counts the pending setTimeout callbacks of onSearchBlur.
DiscoverPage ==
  [initialised |-> FALSE,
   searchQuery |-> <<>>,
   isSearching |-> FALSE,
   isSearchFocused |-> FALSE,
   searchResults |-> <<>>,
   recentSearches |-> <<>>,
   topVolumeStocks |-> <<>>,
   selectedSearchIndex |-> -1,
   isOrderModalVisible |-> FALSE,
   selectedStock |-> Null,
   blurTimers |-> 0]

\* The observers subscribeToModal registers, called for each publish in
\* order: they copy the value into isOrderModalVisible / selectedStock.
RECURSIVE deliverToPage(_, _)
deliverToPage(d, publishes) ==
  IF ~d.initialised \/ publishes = <<>> THEN d
  ELSE deliverToPage(
         CASE publishes[1].stream = "visible" ->
                [d EXCEPT !.isOrderModalVisible = publishes[1].value]
           [] publishes[1].stream = "selectedStock" ->
                [d EXCEPT !.selectedStock = publishes[1].value]
           [] OTHER -> d,
         Tail(publishes))

\* recentSearches.forEach(stock => localStorageService.addRecentSearch(stock)).
\* The page is followed on a localStorage whose calls return.
RECURSIVE addRecentSearches(_, _)
addRecentSearches(item, list) ==
  IF list = <<>> THEN item
  ELSE addRecentSearches(addRecentSearch(item, list[1], TRUE, TRUE), Tail(list))

\* ngOnInit(): loadData() then subscribeToModal(), whose two observers are
\* called at once with the current values (m) of the subjects.
ngOnInit(d, item, m) ==
  [page |-> [d EXCEPT !.initialised = TRUE,
                      !.recentSearches = SubSeq(getMockStocks, 1, 5),
                      !.topVolumeStocks = SubSeq(getTrendingStocks, 1, 3),
                      !.isOrderModalVisible = m.visible,
                      !.selectedStock = m.selected],
   item |-> addRecentSearches(clearRecentSearches(item, TRUE), SubSeq(getMockStocks, 1, 5)),
   searched |-> Some(getMockStocks[5]),
   modal |-> [visible |-> m.visible, selected |-> m.selected, publishes |-> <<>>]]

\* performSearch(query): the mock stocks whose symbol or company name
\* contains the query, letter case aside.
performSearch(query) ==
  The({ [k \in 1..Len(hits) |-> getMockStocks[hits[k]]]
        : hits \in { SelectSeq([i \in 1..Len(getMockStocks) |-> i],
                               LAMBDA i :
                                 \/ includes(toLowerCase(StockText[i].symbol), toLowerCase(query))
                                 \/ includes(toLowerCase(StockText[i].companyName),
                                             toLowerCase(query))) } })

\* onSearchChange(query): the query is stored and searched for; the
\* selection is left as it is.
onSearchChange(d, query) ==
  [d EXCEPT !.searchQuery = query,
            !.isSearching = Len(query) > 0,
            !.searchResults = IF Len(query) > 0 THEN performSearch(query) ELSE <<>>]

\* onSearchInput(event): onSearchChange(target.value), then the selection
\* is reset.
onSearchInput(d, query) ==
  [onSearchChange(d, query) EXCEPT !.selectedSearchIndex = -1]

\* onSearchFocus()
onSearchFocus(d) == [d EXCEPT !.isSearchFocused = TRUE, !.isSearching = TRUE]

\* onSearchBlur() sets a timer; its callback, 200 ms later, clears both
\* flags when the query is empty.
onSearchBlur(d) == [d EXCEPT !.blurTimers = @ + 1]

blurCallback(d) ==
  IF d.searchQuery = <<>>
  THEN [d EXCEPT !.blurTimers = @ - 1, !.isSearchFocused = FALSE, !.isSearching = FALSE]
  ELSE [d EXCEPT !.blurTimers = @ - 1]

\* onSearchClear() and onCancelSearch() have the same body.
onCancelSearch(d) ==
  [d EXCEPT !.searchQuery = <<>>,
            !.isSearching = FALSE,
            !.isSearchFocused = FALSE,
            !.searchResults = <<>>]

\* navigateToStock(symbol): the mock stock of that symbol is added to the
\* recent searches, the list is read back and the order modal is opened.
navigateToStock(d, symbol, item, m) ==
  IF \E i \in DOMAIN getMockStocks : getMockStocks[i].symbol = symbol
  THEN The({ The({ [page |-> deliverToPage(
                               [d EXCEPT !.recentSearches = getRecentSearches(stored, TRUE)],
                               opened.publishes),
                    item |-> stored,
                    searched |-> Some(stock),
                    modal |-> opened]
                   : stored \in { addRecentSearch(item, stock, TRUE, TRUE) },
                     opened \in { openOrderModal(m, stock) } })
             : stock \in { getMockStocks[CHOOSE i \in DOMAIN getMockStocks :
                             /\ getMockStocks[i].symbol = symbol
                             /\ \A j \in 1..(i - 1) : getMockStocks[j].symbol # symbol] } })
  ELSE [page |-> d, item |-> item, searched |-> Null,
        modal |-> [visible |-> m.visible, selected |-> m.selected, publishes |-> <<>>]]

\* navigateToRecentStock(symbol): the order modal is opened for the mock
\* stock of that symbol; the recent searches are left alone.
navigateToRecentStock(d, symbol, item, m) ==
  IF \E i \in DOMAIN getMockStocks : getMockStocks[i].symbol = symbol
  THEN The({ [page |-> deliverToPage(d, opened.publishes),
              item |-> item,
              searched |-> Null,
              modal |-> opened]
             : opened \in { openOrderModal(m, getMockStocks[CHOOSE i \in DOMAIN getMockStocks :
                               /\ getMockStocks[i].symbol = symbol
                               /\ \A j \in 1..(i - 1) : getMockStocks[j].symbol # symbol]) } })
  ELSE [page |-> d, item |-> item, searched |-> Null,
        modal |-> [visible |-> m.visible, selected |-> m.selected, publishes |-> <<>>]]

\* onSearchKeyDown(event): searchResults[k] of the code is searchResults[k + 1]
\* here.
onSearchKeyDown(d, key, item, m) ==
  The({ IF Len(d.searchResults) = 0 THEN same
        ELSE CASE key = "ArrowDown" ->
                    [same EXCEPT !.page.selectedSearchIndex =
                       IF d.selectedSearchIndex + 1 <= Len(d.searchResults) - 1
                       THEN d.selectedSearchIndex + 1 ELSE Len(d.searchResults) - 1]
               [] key = "ArrowUp" ->
                    [same EXCEPT !.page.selectedSearchIndex =
                       IF d.selectedSearchIndex - 1 >= -1
                       THEN d.selectedSearchIndex - 1 ELSE -1]
               [] key = "Enter" ->
                    IF /\ d.selectedSearchIndex >= 0
                       /\ d.selectedSearchIndex + 1 \in DOMAIN d.searchResults
                    THEN navigateToStock(d, d.searchResults[d.selectedSearchIndex + 1].symbol,
                                         item, m)
                    ELSE same
               [] key = "Escape" -> [same EXCEPT !.page = onCancelSearch(d)]
               [] OTHER -> same
        : same \in { [page |-> d, item |-> item, searched |-> Null,
                      modal |-> [visible |-> m.visible, selected |-> m.selected,
                                 publishes |-> <<>>]] } })

\* list.map(stock => stock.symbol === selected.symbol ? selected : stock)
replaceBySymbol(list, selected) ==
  [i \in 1..Len(list) |-> IF list[i].symbol = selected.symbol THEN selected ELSE list[i]]

\* onOrderCompleted(): updateStockAfterOrder() runs first and calls the
\* page's own observers; the lists are then mapped with the page's
\* selectedStock as those observers left it.
onOrderCompleted(d, m, stocks) ==
  The({ The({ [page |-> IF after.selectedStock # Null
                        THEN [after EXCEPT
                                !.topVolumeStocks = replaceBySymbol(@, after.selectedStock[1]),
                                !.recentSearches = replaceBySymbol(@, after.selectedStock[1]),
                                !.searchResults = replaceBySymbol(@, after.selectedStock[1])]
                        ELSE after,
               modal |-> finalized]
              : after \in { deliverToPage(d, finalized.publishes) } })
        : finalized \in { updateStockAfterOrder(m, stocks) } })

\* What is typed into the search box, and the keys pressed in it.
Queries == { <<>>, <<"T", "e", "s">>, <<"t">> }
Keys == { "ArrowDown", "ArrowUp", "Enter", "Escape", "Tab" }

\* Symbols of the entries clicked in the lists, and one that no mock stock has.
Symbols == { "TSLA", "NONE" }

(* ---------------- LoadingService ---------------- *)

\* The service after construction (loadingElement = null), no overlay
\* created yet, and its callers before their show().  An overlay is
\* "presenting" once present() has been called on it, "presented" when
\* that call has resolved, "dismissed" when a dismiss() has resolved.
LoadingService ==
  [loadingElement |-> Null,
   overlays |-> <<>>,
   callers |-> [c \in 1..MaxTasks |->
                  [pc |-> "idle", el |-> 0, method |-> "none",
                   visibleAtCall |-> FALSE, addStockCalled |-> FALSE]]]

\* show() up to its first await, for the caller c: with an overlay
\* referenced it calls hide(), which starts that overlay's dismiss();
\* otherwise it starts create().
show(ld, c, method) ==
  [ld EXCEPT !.callers[c] =
     IF ld.loadingElement # Null
     THEN [@ EXCEPT !.pc = "show: await hide", !.el = ld.loadingElement[1],
                    !.method = method]
     ELSE [@ EXCEPT !.pc = "show: await create", !.el = 0, !.method = method]]

\* hide() up to its await, for the caller c: with an overlay referenced it
\* starts that overlay's dismiss(); otherwise hide() is complete.
hide(ld, c) ==
  [ld EXCEPT !.callers[c] =
     IF ld.loadingElement # Null
     THEN [@ EXCEPT !.pc = "hide: await dismiss", !.el = ld.loadingElement[1]]
     ELSE [@ EXCEPT !.pc = "done", !.el = 0]]

(* ---------------- SwipeButtonComponent ---------------- *)

\* The setTimeout delays of completeSwipe and resetPosition, in ms.
EmitDelay == 200
ResetDelay == 1000
UnlockDelay == 300

\* @Input() threshold = 0.8, as a fraction.
threshold == [num |-> 8, den |-> 10]

\* The component after ngAfterViewInit: a button 160 px wide with a ball of
\* 56 px.  timers are the pending setTimeout callbacks in the order they
\* were set, `left` ms from firing; gestures records, per
\* gesture made, whether the ball reached the threshold, the swiped events
\* emitted for it and whether its completion has reset the button.
SwipeButtonComponent ==
  [disabled |-> FALSE,
   maxTranslate |-> 160 - 56 - 4,
   currentTranslateX |-> 0,
   isCompleted |-> FALSE,
   timers |-> <<>>,
   dragging |-> FALSE,
   gestures |-> <<>>]

\* completeSwipe(), called in gesture g.
completeSwipe(s, g) ==
  IF s.isCompleted \/ s.disabled THEN s
  ELSE [s EXCEPT !.isCompleted = TRUE,
                 !.timers = Append(@, [kind |-> "emit", left |-> EmitDelay, gesture |-> g])]

\* resetPosition(), called for gesture g.
resetPosition(s, g) ==
  [s EXCEPT !.currentTranslateX = 0,
            !.timers = Append(@, [kind |-> "unlock", left |-> UnlockDelay, gesture |-> g])]

\* onMove(ev) with ev.deltaX = deltaX, in gesture g.
onMove(s, deltaX, g) ==
  IF s.disabled \/ s.isCompleted THEN s
  ELSE The({ IF x * threshold.den >= s.maxTranslate * threshold.num
             THEN completeSwipe([s EXCEPT !.currentTranslateX = x,
                                          !.gestures[g].reached = TRUE], g)
             ELSE [s EXCEPT !.currentTranslateX = x]
             : x \in { IF deltaX < s.maxTranslate
                       THEN (IF deltaX > 0 THEN deltaX ELSE 0)
                       ELSE (IF s.maxTranslate > 0 THEN s.maxTranslate ELSE 0) } })

\* onEnd(), in gesture g.
onEnd(s, g) ==
  IF s.disabled \/ s.isCompleted THEN s
  ELSE IF s.currentTranslateX * threshold.den < s.maxTranslate * threshold.num
       THEN resetPosition(s, g)
       ELSE s

\* The callback of the pending timer t runs.
timerCallback(s, t) ==
  CASE t.kind = "emit" ->
         [s EXCEPT !.gestures[t.gesture].emits = @ + 1,
                   !.timers = Append(@, [kind |-> "reset", left |-> ResetDelay,
                                         gesture |-> t.gesture])]
    [] t.kind = "reset" ->
         resetPosition([s EXCEPT !.gestures[t.gesture].reset = TRUE], t.gesture)
    [] t.kind = "unlock" -> [s EXCEPT !.isCompleted = FALSE]

\* ev.deltaX of the move events: left of the start, short of the threshold,
\* beyond it, beyond the end of the button.
Deltas == { -10, 40, 90, 130 }

(* ---------------- OrderModalComponent: the drag path ---------------- *)

\* The setTimeout delays of onDragEnd and triggerSwipeAnimation, in ms.
PurchaseDelay == 300
AnimationDelay == 300
SnapBackDelay == 50

\* swipeThreshold = 0.8, as a fraction.
swipeThreshold == [num |-> 8, den |-> 10]

\* The component after construction.  Its input isVisible is bound to the
\* modal state and is read from there; stock is its input stock.  timers
\* are the pending setTimeout callbacks in the order they were set; drags
\* counts the drags started.
OrderModalComponent ==
  [stock |-> Null,
   amount |-> Zero,
   isAnimating |-> FALSE,
   isDragging |-> FALSE,
   currentDragX |-> 0,
   maxDragDistance |-> 0,
   timers |-> <<>>,
   drags |-> 0]

\* The handler a page template binds to (modalClosed) of the order modal
\* it hosts: onOrderModalClosed() of DiscoverPage or of InvestPage, which
\* are alike, or none for a host that does not bind the output.
ClosedListeners == { "none", "onOrderModalClosed" }

\* onOrderModalClosed(): this.modalService.closeOrderModal()
onOrderModalClosed(m) == closeOrderModal(m)

\* closeModal() of the component: modalClosed.emit() calls its listener
\* before it returns, then closeOrderModal() is called.
closeModal(m, listener) ==
  IF listener = "onOrderModalClosed"
  THEN The({ The({ [visible |-> second.visible,
                    selected |-> second.selected,
                    publishes |-> first.publishes \o second.publishes]
                   : second \in { closeOrderModal([visible |-> first.visible,
                                                    selected |-> first.selected]) } })
             : first \in { onOrderModalClosed(m) } })
  ELSE closeOrderModal(m)

\* InvestPage.loadData() up to its first await, run as caller c of
\* LoadingService: isLoading = true and show().  After show() has returned
\* it reads the trending stocks and its finally block calls hide().
loadData(ld, c) == show(ld, c, "loadData")

\* InvestPage.onOrderCompleted() up to its await: updateStockAfterOrder()
\* runs and calls the observers of DiscoverPage, and loadData() starts as
\* caller c.  The page's own isOrderModalVisible and selectedStock, which
\* it sets to false and null first, are no part of the state: nothing
\* modelled reads them.
InvestPage_onOrderCompleted(d, m, stocks, ld, c) ==
  The({ [page |-> deliverToPage(d, finalized.publishes),
         modal |-> finalized,
         loading |-> loadData(ld, c)]
        : finalized \in { updateStockAfterOrder(m, stocks) } })

\* The handler a page template binds to (orderCompleted) of the order
\* modal it hosts: onOrderCompleted() of DiscoverPage, onOrderCompleted()
\* of InvestPage, or none for a host that does not bind the output.
Listeners == { "none", "DiscoverPage", "InvestPage" }

\* orderCompleted.emit(): an EventEmitter calls its listener before emit()
\* returns.  c is the caller of LoadingService a loadData() would run as.
emit(listener, d, m, stocks, ld, c) ==
  CASE listener = "DiscoverPage" ->
         The({ [page |-> r.page, modal |-> r.modal, loading |-> ld]
               : r \in { onOrderCompleted(d, m, stocks) } })
    [] listener = "InvestPage" -> InvestPage_onOrderCompleted(d, m, stocks, ld, c)
    [] OTHER -> [page |-> d,
                 modal |-> [visible |-> m.visible, selected |-> m.selected,
                            publishes |-> <<>>, stocks |-> stocks],
                 loading |-> ld]

\* The try block of completePurchase up to the toast, for the stock input
\* (Null or Some(stock)) and the form amount as they are when it runs.
\* addStock(null, 0) throws "Invalid stock data" as a stock without a
\* symbol does, so NoSymbol stands for the null stock in the call.
completePurchase(pf, stock, amount) ==
  The({ The({ [portfolio |-> r.portfolio,
               stock |-> s,
               shares |-> shares,
               accepted |-> r.accepted,
               emitted |-> r.emitted,
               coreHandled |-> r.coreHandled,
               callerCaught |-> r.thrown,
               orderCompleted |-> ~r.thrown,
               successToast |-> ~r.thrown]
              : r \in { addStock(pf, s, shares) } })
        : s \in { IF stock = Null THEN NoSymbol ELSE stock[1] },
          shares \in { IF stock = Null THEN Zero ELSE calculatedShares(stock[1], amount) } })

\* orderForm.valid: the amount is required and at least 0.01.
orderFormValid(amount) == ~RLt(amount, Dec(1, 2))

\* Dollar amounts typed into the form, and ev.clientX - dragStartX of the
\* drag moves on a button 342 px wide.
Amounts == { Zero, Dec(240, 0) }
DragDeltas == { -20, 100, 250, 400 }

\* Arguments of addStock where the streams have observers: an accepted buy
\* and a rejected call.
StreamCalls == { Call(ACME100, Dec(2, 0)), Call(ACME100, Zero) }

\* Arguments of addStock between the operations of the order modal.
ModalCalls == StreamCalls \cup { Call(AAPL, Dec(1, 0)) }

\* Stocks selected in the order modal.
ModalStocks == { AAPL, FIG }

\* Stocks searched for: five mock stocks and a stock whose numbers JSON
\* cannot write.
SearchStocks == { getMockStocks[i] : i \in 1..5 } \cup { NonFinite }

\* Every Stock object a caller passes to the services.
SuppliedStocks ==
  { c.stock : c \in BuyCalls } \cup { o.stock : o \in Orders }
  \cup ModalStocks \cup SearchStocks

Streams == { "portfolio", "visible", "selectedStock" }

(* ---------------- state machine ---------------- *)

VARIABLES
  portfolio,          \* portfolioSubject.value
  buys,               \* accepted buys so far: <<[stock, quantity], ...>>
  nCalls,             \* calls of addStock / completePurchase so far
  last,               \* the last such call: inputs, portfolio before, outcome
  published,          \* the Portfolio objects published so far (emitted, now)
  observers,          \* per stream, the subscribed observers in registration order
  log,                \* the next() and observer calls of the last operation, in order
  event,              \* the last operation: its name, argument, modal state before
  orderModalVisible,  \* orderModalVisible.value
  selectedStock,      \* selectedStock.value: Null or Some(stock)
  suppliedStocks,     \* each Stock object callers supplied -> what it reads now
  localStorage,       \* the item under RECENT_SEARCHES_KEY: Null or Some(text)
  lastSearch,         \* the last addRecentSearch since the last clear: its stock, the list before, written or not
  discover,           \* the fields of DiscoverPage
  loading,            \* LoadingService: loadingElement, the overlays created, its callers
  swipe,              \* SwipeButtonComponent: its fields, pending timers, gestures made
  orderModal          \* OrderModalComponent: the form amount, the drag, pending timers

vars == <<portfolio, buys, nCalls, last, published, observers, log, event,
          orderModalVisible, selectedStock, suppliedStocks, localStorage, lastSearch,
          discover, loading, swipe, orderModal>>

portfolioVars == <<portfolio, buys, nCalls, last, published>>
modalVars == <<orderModalVisible, selectedStock>>
storageVars == <<localStorage, lastSearch>>
uiVars == <<loading, swipe, orderModal>>

\* What the steps of completePurchase other than its addStock call leave
\* alone, apart from LoadingService.
notPurchase == <<portfolio, buys, last, published, observers, suppliedStocks,
                 storageVars, swipe>>

NoCall ==
  [op |-> "init", stock |-> AAPL, quantity |-> Zero, before |-> getMockPortfolio,
   accepted |-> FALSE, coreHandled |-> FALSE, thrown |-> FALSE,
   callerCaught |-> FALSE, orderCompleted |-> FALSE, successToast |-> FALSE]

\* The modal state as the operators of ModalService take it.
modal == [visible |-> orderModalVisible, selected |-> selectedStock]

Event(op, arg) == [op |-> op, arg |-> arg, before |-> modal]

Init ==
  /\ portfolio = getMockPortfolio
  /\ buys = <<>>
  /\ nCalls = 0
  /\ last = NoCall
  /\ published = <<[emitted |-> getMockPortfolio, now |-> getMockPortfolio]>>
  /\ observers = [s \in Streams |-> <<>>]
  /\ log = <<>>
  /\ event = [op |-> "init", arg |-> Null, before |-> [visible |-> FALSE, selected |-> Null]]
  /\ orderModalVisible = FALSE
  /\ selectedStock = Null
  /\ suppliedStocks = [s \in SuppliedStocks |-> s]
  /\ localStorage = Null
  /\ lastSearch = Null
  /\ discover = DiscoverPage
  /\ loading = LoadingService
  /\ swipe = SwipeButtonComponent
  /\ orderModal = OrderModalComponent

getCurrentPortfolio == portfolio

\* The value a stream's subject holds.
currentValue(stream) ==
  CASE stream = "portfolio" -> getCurrentPortfolio
    [] stream = "visible" -> orderModalVisible
    [] stream = "selectedStock" -> selectedStock

\* The next() calls of addStock for the values it emitted.
portfolioPublishes(emitted) == [i \in 1..Len(emitted) |-> Publish("portfolio", emitted[i])]

\* A direct call addStock(stock, quantity).
AddStock(stock, quantity) ==
  /\ nCalls < MaxCalls
  /\ \E r \in { addStock(getCurrentPortfolio, stock, quantity) } :
        /\ portfolio' = r.portfolio
        /\ buys' = IF r.accepted THEN Append(buys, [stock |-> stock, quantity |-> quantity])
                   ELSE buys
        /\ last' = [op |-> "addStock", stock |-> stock, quantity |-> quantity,
                    before |-> portfolio,
                    accepted |-> r.accepted, coreHandled |-> r.coreHandled,
                    thrown |-> r.thrown, callerCaught |-> FALSE,
                    orderCompleted |-> FALSE, successToast |-> FALSE]
        /\ published' = publishedAfter(published, r)
        /\ log' = nextAll(portfolioPublishes(r.emitted), observers)
  /\ nCalls' = nCalls + 1
  /\ event' = Event("addStock", Some(stock))
  /\ UNCHANGED <<observers, modalVars, suppliedStocks, storageVars, discover, uiVars>>

\* The id of the next observer: observers are numbered as they subscribe.
nextObserver ==
  Len(observers["portfolio"]) + Len(observers["visible"]) + Len(observers["selectedStock"]) + 1

\* portfolio$ / orderModalVisible$ / selectedStock$ .subscribe(observer)
Subscribe(stream) ==
  /\ nextObserver <= MaxSubscribers
  /\ observers' = [observers EXCEPT ![stream] = Append(@, nextObserver)]
  /\ log' = subscribe(stream, nextObserver, currentValue(stream))
  /\ event' = Event("subscribe", Some(stream))
  /\ UNCHANGED <<portfolioVars, modalVars, suppliedStocks, storageVars, discover, uiVars>>

\* The state change and the stream calls of a ModalService method result r.
ModalStep(r) ==
  /\ orderModalVisible' = r.visible
  /\ selectedStock' = r.selected
  /\ log' = nextAll(r.publishes, observers)
  /\ discover' = deliverToPage(discover, r.publishes)

OpenOrderModal(stock) ==
  /\ ModalStep(openOrderModal(modal, stock))
  /\ event' = Event("openOrderModal", Some(stock))
  /\ UNCHANGED <<portfolioVars, observers, suppliedStocks, storageVars, uiVars>>

CloseOrderModal ==
  /\ ModalStep(closeOrderModal(modal))
  /\ event' = Event("closeOrderModal", Null)
  /\ UNCHANGED <<portfolioVars, observers, suppliedStocks, storageVars, uiVars>>

\* forceCloseOrderModal() calls closeOrderModal().
ForceCloseOrderModal ==
  /\ ModalStep(closeOrderModal(modal))
  /\ event' = Event("forceCloseOrderModal", Null)
  /\ UNCHANGED <<portfolioVars, observers, suppliedStocks, storageVars, uiVars>>

\* toggleOrderModal(stock?): stock is Null or Some(stock).
ToggleOrderModal(stock) ==
  /\ ModalStep(toggleOrderModal(modal, stock))
  /\ event' = Event("toggleOrderModal", stock)
  /\ UNCHANGED <<portfolioVars, observers, suppliedStocks, storageVars, uiVars>>

UpdateStockAfterOrder ==
  /\ \E r \in { updateStockAfterOrder(modal, suppliedStocks) } :
        /\ ModalStep(r)
        /\ suppliedStocks' = r.stocks
  /\ event' = Event("updateStockAfterOrder", Null)
  /\ UNCHANGED <<portfolioVars, observers, storageVars, uiVars>>

\* The router raises an event and the subscription of TabsPage handles it.
RouterEvent(kind) ==
  /\ ModalStep(onRouterEvent(modal, kind))
  /\ event' = Event(kind, Null)
  /\ UNCHANGED <<portfolioVars, observers, suppliedStocks, storageVars, uiVars>>

\* The list a getRecentSearches() that succeeds returns.
storedSearches == getRecentSearches(localStorage, TRUE)

\* The record of an addRecentSearch(stock): the list stored before it and
\* whether its setItem returned.
Searched(stock, setItem) ==
  Some([stock |-> stock, before |-> storedSearches, written |-> setItem])

\* addRecentSearch(stock) on a localStorage whose getItem and setItem
\* return or throw.
AddRecentSearch(stock, getItem, setItem) ==
  /\ localStorage' = addRecentSearch(localStorage, stock, getItem, setItem)
  /\ lastSearch' = Searched(stock, setItem)
  /\ log' = <<>>
  /\ event' = Event("addRecentSearch", Some(stock))
  /\ UNCHANGED <<portfolioVars, observers, modalVars, suppliedStocks, discover, uiVars>>

\* clearRecentSearches() on a localStorage whose removeItem returns or
\* throws.
ClearRecentSearches(removeItem) ==
  /\ localStorage' = clearRecentSearches(localStorage, removeItem)
  /\ lastSearch' = IF removeItem THEN Null ELSE lastSearch
  /\ log' = <<>>
  /\ event' = Event("clearRecentSearches", Null)
  /\ UNCHANGED <<portfolioVars, observers, modalVars, suppliedStocks, discover, uiVars>>

\* The state change of a DiscoverPage handler result r: the page, the
\* stored recent searches, the modal and the calls on its streams.
PageStep(r) ==
  /\ discover' = r.page
  /\ localStorage' = r.item
  /\ orderModalVisible' = r.modal.visible
  /\ selectedStock' = r.modal.selected
  /\ log' = nextAll(r.modal.publishes, observers)

\* Angular creates the page and runs ngOnInit().
DiscoverNgOnInit ==
  /\ ~discover.initialised
  /\ \E r \in { ngOnInit(discover, localStorage, modal) } :
        /\ PageStep(r)
        /\ lastSearch' = The({ Some([stock |-> r.searched[1], before |-> four,
                                     written |-> TRUE])
                               : four \in { getRecentSearches(
                                   addRecentSearches(Null, SubSeq(getMockStocks, 1, 4)),
                                   TRUE) } })
  /\ event' = Event("ngOnInit", Null)
  /\ UNCHANGED <<portfolioVars, observers, suppliedStocks, uiVars>>

SearchInput(query) ==
  /\ discover.initialised
  /\ discover' = onSearchInput(discover, query)
  /\ log' = <<>>
  /\ event' = Event("onSearchInput", Some(query))
  /\ UNCHANGED <<portfolioVars, observers, modalVars, suppliedStocks, storageVars, uiVars>>

\* The state change of a handler result r that may have searched, and
\* the operation recorded for it.
SearchStep(r, op, arg) ==
  /\ PageStep(r)
  /\ lastSearch' = IF r.searched = Null THEN lastSearch
                   ELSE Searched(r.searched[1], TRUE)
  /\ event' = Event(op, Some(arg))
  /\ UNCHANGED <<portfolioVars, observers, suppliedStocks, uiVars>>

SearchKeyDown(key) ==
  /\ discover.initialised
  /\ SearchStep(onSearchKeyDown(discover, key, localStorage, modal), "onSearchKeyDown", key)

\* A click on a search result calls navigateToStock(symbol).
NavigateToStock(symbol) ==
  /\ discover.initialised
  /\ SearchStep(navigateToStock(discover, symbol, localStorage, modal),
                "navigateToStock", symbol)

\* A click on a recent search calls navigateToRecentStock(symbol).
NavigateToRecentStock(symbol) ==
  /\ discover.initialised
  /\ SearchStep(navigateToRecentStock(discover, symbol, localStorage, modal),
                "navigateToRecentStock", symbol)

\* A handler of the search box that changes fields of the page only.
SearchBoxStep(page, op, arg) ==
  /\ discover' = page
  /\ log' = <<>>
  /\ event' = Event(op, arg)
  /\ UNCHANGED <<portfolioVars, observers, modalVars, suppliedStocks, storageVars, uiVars>>

\* onSearchChange(query), called with a query of the caller's.
SearchChange(query) ==
  /\ discover.initialised
  /\ SearchBoxStep(onSearchChange(discover, query), "onSearchChange", Some(query))

SearchFocus ==
  /\ discover.initialised
  /\ SearchBoxStep(onSearchFocus(discover), "onSearchFocus", Null)

SearchBlur ==
  /\ discover.initialised
  /\ discover.blurTimers < MaxBlurTimers
  /\ SearchBoxStep(onSearchBlur(discover), "onSearchBlur", Null)

\* A timer of onSearchBlur fires.
SearchBlurTimerFires ==
  /\ discover.blurTimers > 0
  /\ SearchBoxStep(blurCallback(discover), "onSearchBlur timer", Null)

\* onSearchClear() or onCancelSearch().
CancelSearch(handler) ==
  /\ discover.initialised
  /\ discover' = onCancelSearch(discover)
  /\ log' = <<>>
  /\ event' = Event(handler, Null)
  /\ UNCHANGED <<portfolioVars, observers, modalVars, suppliedStocks, storageVars, uiVars>>

\* The order modal of the page emits orderCompleted, with or without a
\* stock selected.
DiscoverOrderCompleted ==
  /\ discover.initialised
  /\ \E r \in { onOrderCompleted(discover, modal, suppliedStocks) } :
        /\ discover' = r.page
        /\ orderModalVisible' = r.modal.visible
        /\ selectedStock' = r.modal.selected
        /\ log' = nextAll(r.modal.publishes, observers)
        /\ suppliedStocks' = r.modal.stocks
  /\ event' = Event("onOrderCompleted", Null)
  /\ UNCHANGED <<portfolioVars, observers, storageVars, uiVars>>

\* Everything outside LoadingService.
notLoading == <<portfolioVars, observers, log, event, modalVars, suppliedStocks,
                storageVars, discover, swipe, orderModal>>

\* Caller c calls show(): with an overlay referenced it calls hide() first,
\* which starts that overlay's dismiss(); otherwise it starts create().
CallShow(c) ==
  /\ loading.callers[c].pc = "idle"
  /\ loading' = show(loading, c, "caller")
  /\ UNCHANGED notLoading

\* The dismiss() a hide() awaits resolves: the overlay is gone and hide()
\* sets loadingElement to null.  Inside show() the create() call follows;
\* a caller's own hide() is complete.
DismissResolved(c) ==
  /\ loading.callers[c].pc \in { "show: await hide", "hide: await dismiss" }
  /\ loading' = [loading EXCEPT
                   !.overlays[loading.callers[c].el] = "dismissed",
                   !.loadingElement = Null,
                   !.callers[c] = IF @.pc = "show: await hide"
                                  THEN [@ EXCEPT !.pc = "show: await create", !.el = 0]
                                  ELSE [@ EXCEPT !.pc = "done", !.el = 0]]
  /\ UNCHANGED notLoading

\* create() resolves: show() stores the new overlay in loadingElement and
\* calls present() on it.
CreateResolved(c) ==
  /\ loading.callers[c].pc = "show: await create"
  /\ loading' = [loading EXCEPT
                   !.overlays = Append(@, "presenting"),
                   !.loadingElement = Some(Len(loading.overlays) + 1),
                   !.callers[c] = [@ EXCEPT !.pc = "show: await present",
                                            !.el = Len(loading.overlays) + 1]]
  /\ UNCHANGED notLoading

\* present() resolves and show() returns to its caller.
PresentResolved(c) ==
  /\ loading.callers[c].pc = "show: await present"
  /\ loading' = [loading EXCEPT
                   !.overlays[loading.callers[c].el] =
                      IF @ = "presenting" THEN "presented" ELSE @,
                   !.callers[c] = [@ EXCEPT !.pc = "shown", !.el = 0]]
  /\ UNCHANGED notLoading

\* The caller, after its work, calls hide(): with an overlay referenced it
\* starts that overlay's dismiss(); otherwise hide() is complete.
CallHide(c) ==
  /\ loading.callers[c].method \in { "caller", "loadData" }
  /\ loading.callers[c].pc = "shown"
  /\ loading' = hide(loading, c)
  /\ UNCHANGED notLoading

\* completePurchase() up to its first await: without a stock it reports
\* the error and returns; with one it calls show().  The call takes the
\* lowest caller of LoadingService not used yet.
BeginCompletePurchase(stock) ==
  IF stock = Null THEN UNCHANGED <<loading, nCalls>>
  ELSE /\ nCalls < MaxCalls
       /\ nCalls' = nCalls + 1
       /\ \E c \in 1..MaxTasks :
            /\ loading.callers[c].pc = "idle"
            /\ \A b \in 1..(c - 1) : loading.callers[b].pc # "idle"
            /\ loading' = [show(loading, c, "completePurchase") EXCEPT
                             !.callers[c].visibleAtCall = orderModalVisible]

\* The order modal, bound to the stock input `stock` (Null or Some(stock))
\* with `amount` in its form, runs completePurchase().
CompletePurchase(stock, amount) ==
  /\ orderModal' = [orderModal EXCEPT !.stock = stock, !.amount = amount]
  /\ BeginCompletePurchase(stock)
  /\ log' = <<>>
  /\ event' = Event("completePurchase()", stock)
  /\ UNCHANGED <<notPurchase, modalVars, discover>>

\* onSwipeBuy() on the order modal bound to `stock` with `amount` in its
\* form: an invalid form is reported and nothing else happens; a valid one
\* runs completePurchase().
OnSwipeBuy(stock, amount) ==
  /\ orderModal' = [orderModal EXCEPT !.stock = stock, !.amount = amount]
  /\ IF orderFormValid(amount) THEN BeginCompletePurchase(stock)
     ELSE UNCHANGED <<loading, nCalls>>
  /\ log' = <<>>
  /\ event' = Event("onSwipeBuy", stock)
  /\ UNCHANGED <<notPurchase, modalVars, discover>>

\* The lowest caller of LoadingService not used yet, 0 when all are used.
freeCaller(ld) ==
  IF \E c \in 1..MaxTasks : ld.callers[c].pc = "idle"
  THEN CHOOSE c \in 1..MaxTasks :
         /\ ld.callers[c].pc = "idle"
         /\ \A b \in 1..(c - 1) : ld.callers[b].pc # "idle"
  ELSE 0

\* show() has returned to completePurchase(), which goes on to its next
\* await: addStock(this.stock, this.calculatedShares) with the inputs as
\* they are now, orderCompleted.emit(), which runs the handler of the page
\* hosting the modal, and the call of showSuccessToast().  The loadData()
\* of InvestPage needs a caller of LoadingService not used yet.
PurchaseBuy(c) ==
  /\ loading.callers[c].method = "completePurchase"
  /\ loading.callers[c].pc = "shown"
  /\ \E r \in { completePurchase(getCurrentPortfolio, orderModal.stock, orderModal.amount) } :
        /\ portfolio' = r.portfolio
        /\ buys' = IF r.accepted THEN Append(buys, [stock |-> r.stock, quantity |-> r.shares])
                   ELSE buys
        /\ last' = [op |-> "completePurchase", stock |-> r.stock, quantity |-> r.shares,
                    before |-> portfolio,
                    accepted |-> r.accepted, coreHandled |-> r.coreHandled,
                    thrown |-> FALSE, callerCaught |-> r.callerCaught,
                    orderCompleted |-> r.orderCompleted, successToast |-> r.successToast]
        /\ published' = publishedAfter(published, r)
        /\ \E listener \in IF r.orderCompleted THEN Listeners ELSE { "none" },
                 caller \in { freeCaller(loading) } :
              /\ listener = "InvestPage" => caller # 0
              /\ \E e \in { emit(listener, discover, modal, suppliedStocks, loading, caller) } :
                 /\ log' = nextAll(portfolioPublishes(r.emitted) \o e.modal.publishes, observers)
                 /\ orderModalVisible' = e.modal.visible
                 /\ selectedStock' = e.modal.selected
                 /\ suppliedStocks' = e.modal.stocks
                 /\ discover' = e.page
                 /\ loading' = [e.loading EXCEPT !.callers[c].pc = "await toast",
                                                 !.callers[c].addStockCalled = TRUE]
  /\ event' = Event("completePurchase", orderModal.stock)
  /\ UNCHANGED <<nCalls, observers, storageVars, swipe, orderModal>>

\* showSuccessToast() resolves.  On the invest page the finally block calls
\* hide(); on another page completePurchase() first waits 300 ms and for
\* router.navigate(), whose NavigationEnd TabsPage handles before the
\* navigation resolves.
PurchaseContinue(c, onInvestPage) ==
  /\ loading.callers[c].method = "completePurchase"
  /\ \/ /\ loading.callers[c].pc = "await toast"
        /\ loading' = IF onInvestPage THEN hide(loading, c)
                      ELSE [loading EXCEPT !.callers[c].pc = "await navigate"]
        /\ log' = <<>>
        /\ UNCHANGED <<modalVars, discover>>
     \/ /\ loading.callers[c].pc = "await navigate"
        /\ ~onInvestPage
        /\ ModalStep(onRouterEvent(modal, "NavigationEnd"))
        /\ loading' = hide(loading, c)
  /\ event' = Event("completePurchase resumed", Null)
  /\ UNCHANGED <<notPurchase, nCalls, orderModal>>

\* Everything outside SwipeButtonComponent.
notSwipe == <<portfolioVars, observers, log, event, modalVars, suppliedStocks,
              storageVars, discover, loading, orderModal>>

\* The user puts a finger on the ball: onStart() (which only sets a style).
SwipeStart ==
  /\ ~swipe.dragging
  /\ Len(swipe.gestures) < MaxGestures
  /\ swipe' = [swipe EXCEPT !.dragging = TRUE,
                            !.gestures = Append(@, [reached |-> FALSE, emits |-> 0,
                                                    reset |-> FALSE])]
  /\ UNCHANGED notSwipe

\* The swiped events of gesture g, emitted or due from a pending timer.
swipes(s, g) ==
  s.gestures[g].emits
  + Cardinality({ i \in DOMAIN s.timers :
                    s.timers[i].kind = "emit" /\ s.timers[i].gesture = g })

\* A move event of the gesture in progress, before or after a completion
\* has reset the button.  A gesture is followed up to MaxEmits swiped
\* events.
SwipeMove(deltaX) ==
  /\ swipe.dragging
  /\ swipes(swipe, Len(swipe.gestures)) < MaxEmits
  /\ swipe' = onMove(swipe, deltaX, Len(swipe.gestures))
  /\ UNCHANGED notSwipe

SwipeEnd ==
  /\ swipe.dragging
  /\ swipe' = [onEnd(swipe, Len(swipe.gestures)) EXCEPT !.dragging = FALSE]
  /\ UNCHANGED notSwipe

\* The parent changes the disabled input.
SwipeSetDisabled(disabled) ==
  /\ swipe.disabled # disabled
  /\ swipe' = [swipe EXCEPT !.disabled = disabled]
  /\ UNCHANGED notSwipe

\* The earliest-set timer among those due fires.
SwipeTimerFires ==
  /\ \E i \in DOMAIN swipe.timers :
        /\ swipe.timers[i].left = 0
        /\ \A j \in 1..(i - 1) : swipe.timers[j].left > 0
        /\ swipe' = timerCallback(
                      [swipe EXCEPT !.timers = SubSeq(@, 1, i - 1) \o SubSeq(@, i + 1, Len(@))],
                      swipe.timers[i])
  /\ UNCHANGED notSwipe

\* 100 ms pass with no timer due.
SwipeTimePasses ==
  /\ swipe.timers # <<>>
  /\ \A i \in DOMAIN swipe.timers : swipe.timers[i].left > 0
  /\ swipe' = [swipe EXCEPT !.timers = [i \in DOMAIN @ |-> [@[i] EXCEPT !.left = @ - 100]]]
  /\ UNCHANGED notSwipe

\* What the handlers of OrderModalComponent other than completePurchase
\* leave alone, apart from the modal state.
notOrder == <<portfolioVars, observers, suppliedStocks, storageVars, loading, swipe>>

\* A page opens the modal for a stock, which its template binds to the
\* stock input; when isVisible turns true ngOnChanges resets the form.
OrderOpen(stock) ==
  /\ ModalStep(openOrderModal(modal, stock))
  /\ orderModal' = IF orderModalVisible THEN [orderModal EXCEPT !.stock = Some(stock)]
                   ELSE [orderModal EXCEPT !.stock = Some(stock), !.amount = Zero]
  /\ event' = Event("openOrderModal", Some(stock))
  /\ UNCHANGED notOrder

\* The user types an amount into the form of the visible modal.
OrderSetAmount(amount) ==
  /\ orderModalVisible
  /\ orderModal.amount # amount
  /\ orderModal' = [orderModal EXCEPT !.amount = amount]
  /\ log' = <<>>
  /\ event' = Event("amount", Some(amount))
  /\ UNCHANGED <<notOrder, modalVars, discover>>

\* onDragStart(event) on the ball of a button 342 px wide.  Drags are
\* followed up to MaxDrags, counting the purchases already started.
OrderDragStart ==
  /\ orderModalVisible
  /\ orderModal.drags + nCalls < MaxDrags
  /\ orderModal' = [orderModal EXCEPT !.isDragging = TRUE,
                                      !.currentDragX = 0,
                                      !.maxDragDistance = 342 - 40 - 2,
                                      !.drags = @ + 1]
  /\ log' = <<>>
  /\ event' = Event("onDragStart", Null)
  /\ UNCHANGED <<notOrder, modalVars, discover>>

\* onDragMove(event) with clientX - dragStartX = deltaX.
OrderDragMove(deltaX) ==
  /\ orderModalVisible
  /\ orderModal.isDragging
  /\ orderModal' = [orderModal EXCEPT !.currentDragX =
                      IF deltaX < orderModal.maxDragDistance
                      THEN (IF deltaX > 0 THEN deltaX ELSE 0)
                      ELSE (IF orderModal.maxDragDistance > 0
                            THEN orderModal.maxDragDistance ELSE 0)]
  /\ log' = <<>>
  /\ event' = Event("onDragMove", Some(deltaX))
  /\ UNCHANGED <<notOrder, modalVars, discover>>

\* onDragEnd(event): a drag of at least swipeThreshold of the way runs
\* triggerSwipeAnimation() and sets the timer of completePurchase(); a
\* shorter one sets the timer that moves the ball back.
OrderDragEnd ==
  /\ orderModalVisible
  /\ orderModal.isDragging
  /\ orderModal' =
       IF orderModal.currentDragX * swipeThreshold.den
            >= orderModal.maxDragDistance * swipeThreshold.num
       THEN [orderModal EXCEPT
               !.isDragging = FALSE,
               !.isAnimating = TRUE,
               !.currentDragX = orderModal.maxDragDistance,
               !.timers = @ \o << [kind |-> "animation", left |-> AnimationDelay],
                                  [kind |-> "completePurchase", left |-> PurchaseDelay] >>]
       ELSE [orderModal EXCEPT
               !.isDragging = FALSE,
               !.timers = Append(@, [kind |-> "snapBack", left |-> SnapBackDelay])]
  /\ log' = <<>>
  /\ event' = Event("onDragEnd", Null)
  /\ UNCHANGED <<notOrder, modalVars, discover>>

\* closeModal(), from the Escape key or a click on the overlay of the
\* visible modal: modalClosed is emitted to the page hosting the modal,
\* closeOrderModal() is called and the drag state is reset; no timer is
\* cleared.
OrderClose(listener) ==
  /\ orderModalVisible
  /\ ModalStep(closeModal(modal, listener))
  /\ orderModal' = [orderModal EXCEPT !.currentDragX = 0,
                                      !.isDragging = FALSE,
                                      !.isAnimating = FALSE]
  /\ event' = Event("closeModal", Null)
  /\ UNCHANGED notOrder

\* The earliest-set timer among those due fires.  The callback of
\* onDragEnd runs completePurchase().
OrderTimerFires ==
  \E i \in DOMAIN orderModal.timers :
    /\ orderModal.timers[i].left = 0
    /\ \A j \in 1..(i - 1) : orderModal.timers[j].left > 0
    /\ IF orderModal.timers[i].kind = "completePurchase"
       THEN BeginCompletePurchase(orderModal.stock)
       ELSE UNCHANGED <<loading, nCalls>>
    /\ \E rest \in { SubSeq(orderModal.timers, 1, i - 1)
                     \o SubSeq(orderModal.timers, i + 1, Len(orderModal.timers)) } :
         orderModal' =
           IF orderModal.timers[i].kind = "animation"
           THEN [orderModal EXCEPT !.timers = rest, !.isAnimating = FALSE,
                                   !.currentDragX = 0]
           ELSE IF orderModal.timers[i].kind = "snapBack"
           THEN [orderModal EXCEPT !.timers = rest, !.currentDragX = 0]
           ELSE [orderModal EXCEPT !.timers = rest]
    /\ log' = <<>>
    /\ event' = Event(orderModal.timers[i].kind \o " timer", Null)
    /\ UNCHANGED <<notPurchase, modalVars, discover>>

\* 50 ms pass with no timer due.
OrderTimePasses ==
  /\ orderModal.timers # <<>>
  /\ \A i \in DOMAIN orderModal.timers : orderModal.timers[i].left > 0
  /\ orderModal' = [orderModal EXCEPT
                      !.timers = [i \in DOMAIN @ |-> [@[i] EXCEPT !.left = @ - 50]]]
  /\ UNCHANGED <<notOrder, modalVars, discover, log, event>>

\* The portfolio core: calls of addStock.
Next ==
  \E c \in BuyCalls : AddStock(c.stock, c.quantity)

Spec == Init /\ [][Next]_vars

\* Purchases through the order modal: each a call of completePurchase()
\* that any step of another purchase, or of the loadData() its
\* orderCompleted started, may follow while it waits at an await.
NextPurchase ==
  \/ \E o \in Orders : CompletePurchase(Some(o.stock), o.amount)
  \/ CompletePurchase(Null, Dec(240, 0))
  \/ \E o \in Orders : OnSwipeBuy(Some(o.stock), o.amount)
  \/ \E c \in 1..MaxTasks :
        \/ DismissResolved(c)
        \/ CreateResolved(c)
        \/ PresentResolved(c)
        \/ CallHide(c)
        \/ PurchaseBuy(c)
        \/ \E b \in BOOLEAN : PurchaseContinue(c, b)

SpecPurchase == Init /\ [][NextPurchase]_vars

\* The streams with observers: buys, selections and subscriptions.
NextStream ==
  \/ \E c \in StreamCalls : AddStock(c.stock, c.quantity)
  \/ \E s \in Streams : Subscribe(s)
  \/ OpenOrderModal(AAPL)
  \/ CloseOrderModal
  \/ UpdateStockAfterOrder

SpecStream == Init /\ [][NextStream]_vars

\* The order modal: selections, closes and finalizations between buys.
NextModal ==
  \/ \E c \in ModalCalls : AddStock(c.stock, c.quantity)
  \/ \E s \in ModalStocks : OpenOrderModal(s)
  \/ CloseOrderModal
  \/ ForceCloseOrderModal
  \/ \E s \in { Null } \cup { Some(t) : t \in ModalStocks } : ToggleOrderModal(s)
  \/ UpdateStockAfterOrder
  \/ \E k \in RouterEvents : RouterEvent(k)

SpecModal == Init /\ [][NextModal]_vars

\* The recent searches.
NextSearch ==
  \/ \E s \in SearchStocks, getItem, setItem \in BOOLEAN : AddRecentSearch(s, getItem, setItem)
  \/ \E removeItem \in BOOLEAN : ClearRecentSearches(removeItem)

SpecSearch == Init /\ [][NextSearch]_vars

\* The Discover page: searches, keys, and orders completed in its modal.
NextDiscover ==
  \/ DiscoverNgOnInit
  \/ \E q \in Queries : SearchInput(q)
  \/ \E q \in Queries : SearchChange(q)
  \/ SearchFocus
  \/ SearchBlur
  \/ SearchBlurTimerFires
  \/ \E k \in Keys : SearchKeyDown(k)
  \/ \E s \in Symbols : NavigateToStock(s)
  \/ \E s \in Symbols : NavigateToRecentStock(s)
  \/ \E h \in { "onSearchClear", "onCancelSearch" } : CancelSearch(h)
  \/ CloseOrderModal
  \/ DiscoverOrderCompleted

SpecDiscover == Init /\ [][NextDiscover]_vars

\* LoadingService under callers that each run await show(), their work,
\* then hide(), as completePurchase and loadData do; every await may
\* resolve after any other caller's step.
NextLoading ==
  \E c \in 1..MaxTasks :
    \/ CallShow(c)
    \/ DismissResolved(c)
    \/ CreateResolved(c)
    \/ PresentResolved(c)
    \/ CallHide(c)

SpecLoading == Init /\ [][NextLoading]_vars

\* The swipe button: gestures, the disabled input, timers and time.
NextSwipe ==
  \/ SwipeStart
  \/ \E x \in Deltas : SwipeMove(x)
  \/ SwipeEnd
  \/ \E b \in BOOLEAN : SwipeSetDisabled(b)
  \/ SwipeTimerFires
  \/ SwipeTimePasses

SpecSwipe == Init /\ [][NextSwipe]_vars

\* The order modal with its drag path: opening, the
\* form, drags, closes by the user and by navigation, timers, time,
\* onSwipeBuy() on the stock and the amount as they are, as the swiped
\* event of the swipe button calls it, followed up to MaxSwipeBuys drags
\* and purchases, and the purchases these start.
NextOrder ==
  \/ \E s \in ModalStocks : OrderOpen(s)
  \/ \E a \in Amounts : OrderSetAmount(a)
  \/ OrderDragStart
  \/ \E x \in DragDeltas : OrderDragMove(x)
  \/ OrderDragEnd
  \/ \E l \in ClosedListeners : OrderClose(l)
  \/ \E k \in RouterEvents : RouterEvent(k)
  \/ OrderTimerFires
  \/ OrderTimePasses
  \/ orderModal.drags + nCalls < MaxSwipeBuys /\ OnSwipeBuy(orderModal.stock, orderModal.amount)
  \/ \E c \in 1..MaxTasks :
        \/ DismissResolved(c)
        \/ CreateResolved(c)
        \/ PresentResolved(c)
        \/ CallHide(c)
        \/ PurchaseBuy(c)
        \/ \E b \in BOOLEAN : PurchaseContinue(c, b)

SpecOrder == Init /\ [][NextOrder]_vars


(* ---------------- properties ---------------- *)

\* The last call was accepted: addStock ran to its publish.
Bought == last.op # "init" /\ last.accepted

\* The symbol bought by the last call was already held before it.
HeldBefore == \E i \in DOMAIN last.before.holdings :
                last.before.holdings[i].stock.symbol = last.stock.symbol

\* The last two accepted buys are of one symbol that was not held before them.
TwoBuysOfNewSymbol ==
  /\ Len(buys) >= 2
  /\ buys[Len(buys) - 1].stock.symbol = buys[Len(buys)].stock.symbol
  /\ \A i \in 1..3 : getMockPortfolio.holdings[i].stock.symbol # buys[Len(buys)].stock.symbol
  /\ \A k \in 1..(Len(buys) - 2) : buys[k].stock.symbol # buys[Len(buys)].stock.symbol

\* C1: the holdings contain at most one holding per symbol, and a buy of a
\* symbol already held updates its holding without appending another.
C1_OneHoldingPerSymbol ==
  /\ \A i, j \in DOMAIN portfolio.holdings :
       portfolio.holdings[i].stock.symbol = portfolio.holdings[j].stock.symbol => i = j
  /\ (Bought /\ HeldBefore) => Len(portfolio.holdings) = Len(last.before.holdings)

C1_Witness ==
  /\ Bought /\ HeldBefore
  /\ Len(buys) = 2
  /\ buys[1].stock.symbol = buys[2].stock.symbol
  /\ buys[1].stock # buys[2].stock

\* C2: a call that fails validation leaves the portfolio returned by
\* getCurrentPortfolio equal, field by field, to the one before the call.
C2_RejectedBuyChangesNothing ==
  (last.op # "init" /\ ~last.accepted) => getCurrentPortfolio = last.before

C2_Witness ==
  /\ last.op = "addStock" /\ ~last.accepted
  /\ REq(RMul(last.stock.price, last.quantity), Number(2000000))
  /\ Len(buys) >= 1

\* C3: a validation failure of addStock reaches its caller as an error (the
\* catch branch of completePurchase runs) and the core does not handle or
\* log it itself.
C3_FailureReachesCaller ==
  (last.op = "completePurchase" /\ ~last.accepted) =>
    (last.callerCaught /\ ~last.coreHandled)

\* C4: addStock accepts a call exactly when the symbol is non-empty, the
\* price is positive and price * quantity lies in [0.01, 1000000].
C4_AcceptedIffValid ==
  last.op = "addStock" =>
    (last.accepted <=>
       /\ last.stock.symbol # ""
       /\ RLt(Zero, last.stock.price)
       /\ RLe(Dec(1, 2), RMul(last.stock.price, last.quantity))
       /\ RLe(RMul(last.stock.price, last.quantity), Number(1000000)))

\* C5: after every accepted buy totalEquity is the sum of totalValue over
\* the holdings.
C5_TotalEquityIsSumOfValues ==
  Bought =>
    LET hs == portfolio.holdings
        sum[k \in 0..Len(hs)] ==
          IF k = 0 THEN Zero ELSE RAdd(sum[k - 1], hs[k].totalValue)
    IN REq(portfolio.totalEquity, sum[Len(hs)])

\* C6: a buy of q1 at price p on a holding (q0, p0) gives it quantity q0 + q1
\* and averagePrice (q0*p0 + q1*p) / (q0 + q1); the quantity and averagePrice
\* of every other holding stay as they were.
C6_WeightedAverage ==
  Bought =>
    \A i \in DOMAIN last.before.holdings :
      LET h0 == last.before.holdings[i]
          h1 == portfolio.holdings[i]
          q1 == last.quantity
          p == last.stock.price
      IN IF h0.stock.symbol = last.stock.symbol
         THEN /\ REq(h1.quantity, RAdd(h0.quantity, q1))
              /\ REq(h1.averagePrice,
                     RDiv(RAdd(RMul(h0.quantity, h0.averagePrice), RMul(q1, p)),
                          RAdd(h0.quantity, q1)))
         ELSE /\ REq(h1.quantity, h0.quantity)
              /\ REq(h1.averagePrice, h0.averagePrice)

C6_Witness ==
  /\ Bought /\ HeldBefore
  /\ last.stock = AAPL120
  /\ Len(buys) = 2 /\ buys[1].stock = FIG

\* C7: for a symbol not yet held, buy(q1,p1) then buy(q2,p2) leaves the same
\* quantity and averagePrice as one buy of q1+q2 at the pooled price
\* (q1*p1 + q2*p2) / (q1 + q2), whenever the combined buy passes validation.
C7_Associativity ==
  TwoBuysOfNewSymbol =>
    LET n == Len(buys)
        b1 == buys[n - 1]
        b2 == buys[n]
        replay[k \in 0..n] ==
          IF k = 0 THEN getMockPortfolio
          ELSE addStock(replay[k - 1], buys[k].stock, buys[k].quantity).portfolio
        qSum == RAdd(b1.quantity, b2.quantity)
        pooled == RDiv(RAdd(RMul(b1.quantity, b1.stock.price),
                            RMul(b2.quantity, b2.stock.price)), qSum)
        combined == addStock(replay[n - 2], [b2.stock EXCEPT !.price = pooled], qSum)
        hTwo == portfolio.holdings[Len(portfolio.holdings)]
        hOne == combined.portfolio.holdings[Len(combined.portfolio.holdings)]
    IN combined.accepted =>
         /\ hTwo.stock.symbol = b2.stock.symbol
         /\ hOne.stock.symbol = b2.stock.symbol
         /\ REq(hTwo.quantity, hOne.quantity)
         /\ REq(hTwo.averagePrice, hOne.averagePrice)

C7_Witness ==
  /\ TwoBuysOfNewSymbol
  /\ buys[Len(buys) - 1] = Call(ACME100, Dec(2, 0))
  /\ buys[Len(buys)] = Call(ACME120, Dec(1, 0))
  /\ REq(portfolio.holdings[Len(portfolio.holdings)].averagePrice, Rat(320, 3))

\* C8: a first buy of q at price p creates a holding with quantity q,
\* averagePrice p and totalValue p*q; a following buy of q2 at p2 of the same
\* symbol gives quantity q+q2, averagePrice (q*p + q2*p2)/(q+q2) and
\* totalValue (q+q2)*p2.
C8_FirstAndSecondBuy ==
  /\ (Bought /\ ~HeldBefore) =>
       LET h == portfolio.holdings[Len(portfolio.holdings)]
       IN /\ Len(portfolio.holdings) = Len(last.before.holdings) + 1
          /\ h.stock.symbol = last.stock.symbol
          /\ REq(h.quantity, last.quantity)
          /\ REq(h.averagePrice, last.stock.price)
          /\ REq(h.totalValue, RMul(last.stock.price, last.quantity))
  /\ TwoBuysOfNewSymbol =>
       LET b1 == buys[Len(buys) - 1]
           b2 == buys[Len(buys)]
           h == portfolio.holdings[Len(portfolio.holdings)]
           qSum == RAdd(b1.quantity, b2.quantity)
       IN /\ h.stock.symbol = b2.stock.symbol
          /\ REq(h.quantity, qSum)
          /\ REq(h.averagePrice,
                 RDiv(RAdd(RMul(b1.quantity, b1.stock.price),
                           RMul(b2.quantity, b2.stock.price)), qSum))
          /\ REq(h.totalValue, RMul(qSum, b2.stock.price))

C8_Witness ==
  /\ buys = << Call(ACME100, Dec(2, 0)), Call(ACME120, Dec(1, 0)) >>
  /\ REq(portfolio.holdings[4].quantity, Number(3))
  /\ REq(portfolio.holdings[4].averagePrice, Rat(320, 3))
  /\ REq(portfolio.holdings[4].totalValue, Number(360))

\* C9: every holding of every reachable portfolio has
\* gainLoss = (price - averagePrice) * quantity and
\* gainLossPercent = (price - averagePrice) / averagePrice, so a holding
\* created by a first buy has gainLoss 0 and gainLossPercent 0.
C9_GainLossDerived ==
  \A i \in DOMAIN portfolio.holdings :
    LET h == portfolio.holdings[i]
    IN /\ REq(h.gainLoss, RMul(RSub(h.stock.price, h.averagePrice), h.quantity))
       /\ REq(h.gainLossPercent,
              RDiv(RSub(h.stock.price, h.averagePrice), h.averagePrice))

\* C10 as stated: after an accepted buy dayChange is the sum of
\* stock.change * quantity over the holdings and dayChangePercent is
\* dayChange / (totalEquity - dayChange), or 0 when that denominator is 0.
C10_DayChangeAsFraction ==
  Bought =>
    LET hs == portfolio.holdings
        sum[k \in 0..Len(hs)] ==
          IF k = 0 THEN Zero
          ELSE RAdd(sum[k - 1], RMul(hs[k].stock.change, hs[k].quantity))
        rest == RSub(portfolio.totalEquity, portfolio.dayChange)
    IN /\ REq(portfolio.dayChange, sum[Len(hs)])
       /\ REq(portfolio.dayChangePercent,
              IF REq(rest, Zero) THEN Zero ELSE RDiv(portfolio.dayChange, rest))

\* C10 (amended): after an accepted buy dayChange is the sum of
\* stock.change * quantity over the holdings and dayChangePercent is
\* 100 * dayChange / (totalEquity - dayChange), or 0 when that denominator
\* is 0.
C10_DayChangeInPercent ==
  Bought =>
    LET hs == portfolio.holdings
        sum[k \in 0..Len(hs)] ==
          IF k = 0 THEN Zero
          ELSE RAdd(sum[k - 1], RMul(hs[k].stock.change, hs[k].quantity))
        rest == RSub(portfolio.totalEquity, portfolio.dayChange)
    IN /\ REq(portfolio.dayChange, sum[Len(hs)])
       /\ REq(portfolio.dayChangePercent,
              IF REq(rest, Zero) THEN Zero
              ELSE RMul(RDiv(portfolio.dayChange, rest), Hundred))

C10_Witness ==
  /\ Bought
  /\ last.stock = FIG
  /\ Len(buys) = 2 /\ buys[1].stock = AAPL120
  /\ RLt(Zero, portfolio.dayChange)
  /\ RLt(Zero, portfolio.dayChangePercent)

\* An accepted buy has left totalEquity - dayChange at 0 and
\* dayChangePercent at 0.
ZeroDenominator ==
  /\ Bought
  /\ last.stock = Cancels
  /\ isZero(RSub(portfolio.totalEquity, portfolio.dayChange))
  /\ portfolio.dayChangePercent = Zero

\* C11: in every reachable portfolio every holding has a positive quantity
\* and a positive average price.
C11_HoldingsPositive ==
  \A i \in DOMAIN portfolio.holdings :
    /\ RLt(Zero, portfolio.holdings[i].quantity)
    /\ RLt(Zero, portfolio.holdings[i].averagePrice)

\* The last operation was a subscription to the stream.
Subscribed(stream) == event.op = "subscribe" /\ event.arg = Some(stream)

\* C12: an observer that subscribes to a stream is called at once, exactly
\* one time, with the value the stream's getter returns at that moment; for
\* the portfolio stream that value is the last Portfolio published.
C12_ReplayLatest ==
  \A stream \in Streams :
    Subscribed(stream) =>
      /\ Len(log) = 1
      /\ log[1].kind = "deliver"
      /\ log[1].stream = stream
      /\ log[1].to = observers[stream][Len(observers[stream])]
      /\ log[1].value = currentValue(stream)
      /\ stream = "portfolio" =>
           /\ log[1].value = getCurrentPortfolio
           /\ log[1].value = published[Len(published)].emitted

C12_Witness ==
  /\ Subscribed("portfolio")
  /\ Len(buys) = 1
  /\ nCalls = 2
  /\ Len(log) = 1
  /\ REq(log[1].value.totalEquity, Number(8236))
  /\ observers["selectedStock"] # <<>>
  /\ selectedStock = Some(AAPL)

\* The last operation was a call of addStock.
Called == event.op \in {"addStock", "completePurchase"}

\* C13: an accepted addStock makes one publish of the new portfolio and
\* calls every observer of the portfolio stream with it, in registration
\* order; a rejected addStock makes no publish and calls no observer.
C13_OnePublishPerBuy ==
  Called =>
    IF last.accepted
    THEN /\ Len(log) = 1 + Len(observers["portfolio"])
         /\ log[1].kind = "next"
         /\ \A i \in 1..Len(observers["portfolio"]) :
              /\ log[i + 1].kind = "deliver"
              /\ log[i + 1].to = observers["portfolio"][i]
         /\ \A i \in 1..Len(log) :
              log[i].stream = "portfolio" /\ log[i].value = getCurrentPortfolio
         /\ getCurrentPortfolio # last.before
         /\ Len(published) = Len(buys) + 1
    ELSE log = <<>>

C13_Witness ==
  /\ Called /\ last.accepted
  /\ Len(observers["portfolio"]) = 2
  /\ Len(log) = 3

\* C14: a Portfolio that was published reads afterwards as it did when it
\* was published.
C14_PublishedNeverChanges ==
  \A k \in DOMAIN published : published[k].now = published[k].emitted

\* C15: every Stock object a caller supplied reads as it was passed, and the
\* stock of every holding is such a record.
C15_StocksNeverMutated ==
  /\ \A s \in DOMAIN suppliedStocks : suppliedStocks[s] = s
  /\ \A i \in DOMAIN portfolio.holdings : portfolio.holdings[i].stock \in SuppliedStocks

C15_Witness ==
  /\ event.op = "updateStockAfterOrder"
  /\ event.before.selected = Some(AAPL)
  /\ Len(buys) = 2
  /\ \E i \in DOMAIN portfolio.holdings : portfolio.holdings[i].stock = ACME100

\* C16: the modal starts hidden with no stock selected, and openOrderModal
\* leaves it visible with its argument selected, whatever held before.
C16_SelectOpens ==
  /\ event.op = "init" => (orderModalVisible = FALSE /\ selectedStock = Null)
  /\ event.op = "openOrderModal" => (orderModalVisible = TRUE /\ selectedStock = event.arg)

C16_Witness ==
  /\ event.op = "openOrderModal"
  /\ event.before.visible
  /\ event.before.selected = Some(AAPL)
  /\ selectedStock = Some(FIG)

\* C17: closeOrderModal and forceCloseOrderModal hide the modal, leave the
\* selected stock as it was, publish nothing on the selectedStock stream,
\* and a second close changes nothing.
C17_ClosePreservesSelection ==
  event.op \in {"closeOrderModal", "forceCloseOrderModal"} =>
    /\ orderModalVisible = FALSE
    /\ selectedStock = event.before.selected
    /\ \A i \in 1..Len(log) : log[i].stream # "selectedStock"
    /\ closeOrderModal(modal).visible = orderModalVisible
    /\ closeOrderModal(modal).selected = selectedStock

C17_Witness ==
  /\ event.op = "closeOrderModal"
  /\ event.before.visible
  /\ selectedStock = Some(AAPL)

\* C18: updateStockAfterOrder leaves the modal hidden with no stock selected.
C18_FinalizeClears ==
  event.op = "updateStockAfterOrder" => (orderModalVisible = FALSE /\ selectedStock = Null)

C18_Witness ==
  /\ event.op = "updateStockAfterOrder"
  /\ event.before.visible
  /\ event.before.selected = Some(FIG)

\* The next() calls of the last operation, in order.
Published == SelectSeq(log, LAMBDA e : e.kind = "next")

\* C19: updateStockAfterOrder publishes visible = false, then, when a stock
\* A was selected, a record equal to A but for change = 0 and
\* changePercent = 0, then null; with no stock selected only the first and
\* the last.
C19_FinalizePublishOrder ==
  event.op = "updateStockAfterOrder" =>
    /\ Len(Published) >= 2
    /\ Published[1].stream = "visible"
    /\ Published[1].value = FALSE
    /\ Published[Len(Published)].stream = "selectedStock"
    /\ Published[Len(Published)].value = Null
    /\ IF event.before.selected = Null THEN Len(Published) = 2
       ELSE /\ Len(Published) = 3
            /\ Published[2].stream = "selectedStock"
            /\ Published[2].value # Null
            /\ Published[2].value[1].symbol = event.before.selected[1].symbol
            /\ Published[2].value[1].price = event.before.selected[1].price
            /\ Published[2].value[1].change = Zero
            /\ Published[2].value[1].changePercent = Zero

C19_Witness ==
  /\ event.op = "updateStockAfterOrder"
  /\ event.before.selected = Some(FIG)
  /\ Len(Published) = 3
  /\ Published[2].value[1] # FIG

RecentSearches == storedSearches

\* What JSON.parse reads back for a number written by JSON.stringify,
\* stated on the number itself.
storedAs(x, y) ==
  IF x.k = "num" THEN y.k = "num" /\ REq(y, x) /\ ~(isZero(y) /\ y.neg)
  ELSE y = JsNull

\* The stored list is capped and symbol-unique whatever localStorage does;
\* an addRecentSearch whose setItem returned has put its stock first, its
\* numbers as JSON keeps them, before the entries it read, which are those
\* stored or none; one whose setItem threw has left the list as it was.
StoredList ==
  /\ Len(RecentSearches) <= MAX_RECENT_SEARCHES
  /\ \A i, j \in DOMAIN RecentSearches :
       RecentSearches[i].symbol = RecentSearches[j].symbol => i = j
  /\ lastSearch # Null /\ lastSearch[1].written =>
       /\ RecentSearches # <<>>
       /\ RecentSearches[1].symbol = lastSearch[1].stock.symbol
       /\ storedAs(lastSearch[1].stock.price, RecentSearches[1].price)
       /\ storedAs(lastSearch[1].stock.change, RecentSearches[1].change)
       /\ storedAs(lastSearch[1].stock.changePercent, RecentSearches[1].changePercent)
       /\ \E rest \in { filterOut(lastSearch[1].before, lastSearch[1].stock.symbol), <<>> } :
            Tail(RecentSearches) = SubSeq(rest, 1, IF Len(rest) > 4 THEN 4 ELSE Len(rest))
  /\ lastSearch # Null /\ ~lastSearch[1].written =>
       RecentSearches = lastSearch[1].before

\* A stock with numbers JSON cannot write is stored with null in their place.
StoredNull ==
  /\ lastSearch # Null
  /\ lastSearch[1].written
  /\ lastSearch[1].stock = NonFinite
  /\ RecentSearches[1] = Stock("ODD", JsNull, JsNull, Zero)
  /\ Len(RecentSearches) = 5

\* C20: the stored list has at most MAX_RECENT_SEARCHES entries and no two
\* of one symbol; after an addRecentSearch its first entry is the stock
\* added, a symbol added again has moved to the front, and a sixth symbol
\* has dropped the oldest entry.
C20_RecentSearches ==
  /\ Len(RecentSearches) <= 5
  /\ \A i, j \in DOMAIN RecentSearches :
       RecentSearches[i].symbol = RecentSearches[j].symbol => i = j
  /\ lastSearch # Null =>
       /\ RecentSearches # <<>>
       /\ RecentSearches[1].symbol = lastSearch[1].stock.symbol
       /\ (\E i \in DOMAIN lastSearch[1].before :
             lastSearch[1].before[i].symbol = lastSearch[1].stock.symbol)
          => /\ Len(RecentSearches) = Len(lastSearch[1].before)
             /\ Tail(RecentSearches) =
                  SelectSeq(lastSearch[1].before,
                            LAMBDA s : s.symbol # lastSearch[1].stock.symbol)
       /\ (/\ Len(lastSearch[1].before) = 5
           /\ \A i \in DOMAIN lastSearch[1].before :
                lastSearch[1].before[i].symbol # lastSearch[1].stock.symbol)
          => Tail(RecentSearches) = SubSeq(lastSearch[1].before, 1, 4)

\* C21: every accepted buy raises totalEquity by exactly price * quantity
\* over its value before the call, for a new and for a held symbol alike.
C21_EquityGrowsByPurchaseValue ==
  Bought =>
    REq(portfolio.totalEquity,
        RAdd(last.before.totalEquity, RMul(last.stock.price, last.quantity)))

\* A buy of a new symbol followed by a buy of a held one, two shares each.
C21_Witness ==
  /\ Bought /\ HeldBefore
  /\ Len(buys) = 2
  /\ buys[1].stock.symbol = "ACME"
  /\ REq(buys[1].quantity, Dec(2, 0))
  /\ REq(last.quantity, Dec(2, 0))
  /\ REq(portfolio.totalEquity,
         RAdd(getMockPortfolio.totalEquity,
              RAdd(RMul(buys[1].stock.price, buys[1].quantity),
                   RMul(buys[2].stock.price, buys[2].quantity))))

\* C27: completePurchase emits orderCompleted and shows the success toast
\* only if addStock changed the portfolio; when addStock rejects the
\* purchase neither happens.
C27_CompletionOnlyOnChange ==
  (last.op = "completePurchase" /\ ~last.accepted) =>
    (~last.orderCompleted /\ ~last.successToast)

\* C29: after a buy of a held symbol the holding stores the Stock passed to
\* that call, every holding's totalValue is its stored price times its
\* quantity, and dayChange is summed from the change supplied last.
C29_StoredStockIsLatest ==
  /\ \A i \in DOMAIN portfolio.holdings :
       REq(portfolio.holdings[i].totalValue,
           RMul(portfolio.holdings[i].stock.price, portfolio.holdings[i].quantity))
  /\ (Bought /\ HeldBefore) =>
       LET hs == portfolio.holdings
           latest(h) == IF h.stock.symbol = last.stock.symbol THEN last.stock.change
                        ELSE h.stock.change
           sum[k \in 0..Len(hs)] ==
             IF k = 0 THEN Zero
             ELSE RAdd(sum[k - 1], RMul(latest(hs[k]), hs[k].quantity))
       IN /\ hs[findHolding(hs, last.stock)].stock = last.stock
          /\ REq(portfolio.dayChange, sum[Len(hs)])

\* C22: every NavigationEnd event handled by TabsPage closes the order
\* modal: afterwards orderModalVisible is false and selectedStock is what
\* it was before the navigation.
C22_NavigationCloses ==
  event.op = "NavigationEnd" =>
    /\ ~orderModalVisible
    /\ selectedStock = event.before.selected

\* A navigation ends while the modal shows a selected stock.
C22_Witness ==
  /\ event.op = "NavigationEnd"
  /\ event.before.visible
  /\ event.before.selected = Some(FIG)
  /\ ~orderModalVisible
  /\ Len(Published) = 1

\* C25: in every state of ModalService, and after each single next() of
\* an operation (what a subscriber called by it can read), a visible
\* modal has a selected stock.
C25_VisibleHasSelection ==
  /\ orderModalVisible => selectedStock # Null
  /\ \A k \in 1..Len(Published) :
       LET on(stream) == { j \in 1..k : Published[j].stream = stream }
           latest(stream) == CHOOSE j \in on(stream) : \A i \in on(stream) : i <= j
           visibleNow == IF on("visible") = {} THEN event.before.visible
                         ELSE Published[latest("visible")].value
           selectedNow == IF on("selectedStock") = {} THEN event.before.selected
                          ELSE Published[latest("selectedStock")].value
       IN visibleNow => selectedNow # Null

\* The modal opens from the state with nothing selected.
C25_Witness ==
  /\ event.op \in { "openOrderModal", "toggleOrderModal" }
  /\ ~event.before.visible
  /\ event.before.selected = Null
  /\ orderModalVisible
  /\ Len(Published) = 2
  /\ Published[1].stream = "selectedStock"

\* C23: after onOrderCompleted on the Discover page every entry of
\* topVolumeStocks, recentSearches and searchResults with the symbol of the
\* purchased stock is that stock with change = 0 and changePercent = 0.
C23_ListsShowZeroChange ==
  (event.op = "onOrderCompleted" /\ event.before.selected # Null) =>
    LET purchased == event.before.selected[1]
        shown(list) == \A i \in DOMAIN list :
                         list[i].symbol = purchased.symbol => list[i] = zeroedCopy(purchased)
    IN /\ shown(discover.topVolumeStocks)
       /\ shown(discover.recentSearches)
       /\ shown(discover.searchResults)

\* C30: selectedSearchIndex stays within [-1, searchResults.length - 1],
\* and an Enter key that opens the order modal opens it for the stock at
\* selectedSearchIndex in the search results.
C30_SearchIndexInRange ==
  /\ discover.selectedSearchIndex >= -1
  /\ discover.selectedSearchIndex <= Len(discover.searchResults) - 1
  /\ (event.op = "onSearchKeyDown" /\ event.arg = Some("Enter") /\ Published # <<>>) =>
       /\ discover.selectedSearchIndex >= 0
       /\ orderModalVisible
       /\ selectedStock = Some(discover.searchResults[discover.selectedSearchIndex + 1])

\* C28: at any time at most one overlay has been created and not
\* dismissed, and once every show() called has been followed by a
\* completed hide() no overlay is left.
C28_AtMostOneOverlay ==
  /\ Cardinality({ i \in DOMAIN loading.overlays : loading.overlays[i] # "dismissed" }) <= 1
  /\ (\A c \in 1..MaxTasks : loading.callers[c].pc \in { "idle", "done" }) =>
       \A i \in DOMAIN loading.overlays : loading.overlays[i] = "dismissed"

\* C24: a gesture in which the ball reaches threshold * maxTranslate emits
\* swiped once, whatever moves follow before its completion resets the
\* button; a gesture in which it does not (it ends short of the threshold,
\* or its moves are made while disabled) emits nothing; and the ball stays
\* within [0, maxTranslate].
C24_SwipedOncePerGesture ==
  /\ \A g \in DOMAIN swipe.gestures :
       LET pending == Cardinality({ i \in DOMAIN swipe.timers :
                                      /\ swipe.timers[i].kind = "emit"
                                      /\ swipe.timers[i].gesture = g })
           emits == swipe.gestures[g].emits + pending
       IN /\ (swipe.gestures[g].reached /\ ~swipe.gestures[g].reset) => emits = 1
          /\ ~swipe.gestures[g].reached => emits = 0
  /\ swipe.currentTranslateX >= 0
  /\ swipe.currentTranslateX <= swipe.maxTranslate

\* C26: when the delayed callback of a completed swipe fires with the
\* order modal closed, addStock is not invoked.
C26_NoPurchaseAfterClose ==
  \A c \in 1..MaxTasks :
    (loading.callers[c].method = "completePurchase" /\ ~loading.callers[c].visibleAtCall) =>
      ~loading.callers[c].addStockCalled
====
